---- MODULE Spec2Model ----
(***************************************************************************)
(* Booking back end of mea-barber: the edge functions send-sms,            *)
(* verify-code, create-booking, admin-create-booking (two versions) and    *)
(* sms-webhook over the tables verification_codes, bookings, rate_limits   *)
(* and closed_slots.  Every request is a process; every storage operation  *)
(* of a handler is one atomic step, and the steps of different requests    *)
(* interleave freely (no in-process locking).                              *)
(*                                                                         *)
(* Time is in minutes.  A phone string is <<format, subscriber>>:          *)
(*   "e164"  = "+972..."   "intl" = "972..."   "local" = "0..."            *)
(*   "short" = nine digits "bad"  = anything normalizePhone rejects        *)
(* A response is [status, error]; error "none" is success: true.           *)
(***************************************************************************)
EXTENDS Integers, Sequences, FiniteSets, TLC

(* ------------------------------ bounds -------------------------------- *)
MaxProcs == 3
FlowProcs == 2
MaxNow == 2
MaxPriorFails == 4
MaxNewer == 11
MaxRecorded == 1
TickStep == 5

(* ------------------------- program constants -------------------------- *)
CODE_TTL_MINUTES == 5
MAX_DAYS_AHEAD == 60
THREE_HOURS_MIN == 180
MINUTES_PER_DAY == 1440
MINUTES_PER_HOUR == 60
CLEANUP_AGE_MINUTES == 60

Procs == 1 .. MaxProcs
Subscribers == {"s1", "s2"}
ActionTypes == {"sms_send", "verify_attempt", "verify_fail"}

VARIABLES
  now,                 \* wall clock, minutes
  verification_codes,  \* table: rows [id, phone, code, expires_at, verified]
  bookings,            \* table: rows [id, customer_name, customer_phone, booking_date, booking_time, status]
  rate_limits,         \* table: rows [identifier, action_type, created_at, n]; n numbers equal rows
  closed_slots,        \* table: rows [closed_date, closed_time]; closed_time {} is NULL
  pc,                  \* position of each request
  req,                 \* the request each process handles
  outcome,             \* the response each process returned
  wrote,               \* history: the tables each request has modified
  consumedBy,          \* history: id of the verification row the request's UPDATE returned, 0 if none
  consumeAt,           \* history: clock value used by the request's consume UPDATE, -1 if none
  target,              \* sms-webhook: id of the booking chosen by the scan, 0 if none
  pre,                 \* history: facts observed when the request arrived
  issued,              \* history: completed issuances, in order of their inserts
  probe,               \* result of the last direct checkRateLimit call
  notify,              \* history: result of the request's confirmation SMS dispatch
  failed               \* history: the storage operations of the request that returned an error

vars == <<now, verification_codes, bookings, rate_limits, closed_slots, pc, req,
          outcome, wrote, consumedBy, consumeAt, target, pre, issued, probe, notify,
          failed>>

(* ------------------------------ requests ------------------------------ *)
NoReq == [kind |-> "none", phone |-> <<"bad", "s1">>, code |-> "", name |-> "",
          date |-> 0, time |-> 0, cred |-> "none", body |-> ""]
NoOutcome == [status |-> 0, error |-> "pending"]
NoPre == [at |-> -1, okVerify |-> FALSE, superseded |-> FALSE, slotFree |-> FALSE,
          gatesOpen |-> FALSE]
NoProbe == [identifier |-> <<"bad", "s1">>, action |-> "none", rpcError |-> FALSE,
            result |-> FALSE]

Resp(status, error) == [status |-> status, error |-> error]

(* ------------------- _shared/security.ts (part_000) ------------------- *)
NormalizeThrows(phone) == phone[1] = "bad"

normalizePhone(phone) == <<"e164", phone[2]>>

(* Test account (Fix #3).  The environment of the deployment: the staging
   flag is off; a test phone and a test code are configured all the same. *)
TEST_PHONE_ENV == <<"local", "s1">>

TEST_CODE_ENV == "c2"

IS_STAGING == FALSE

isTestAccount(phone) ==
  IF ~IS_STAGING THEN FALSE
  ELSE IF NormalizeThrows(phone) THEN FALSE
  ELSE normalizePhone(phone) = normalizePhone(TEST_PHONE_ENV)

getTestCode == IF ~IS_STAGING \/ TEST_CODE_ENV = "" THEN "null" ELSE TEST_CODE_ENV

SAFE_ERROR_MESSAGES ==
  [m \in {"Missing required fields", "Invalid phone number format",
          "Invalid code format", "Rate limit exceeded", "Slot already booked",
          "Slot not available"} |->
     CASE m = "Missing required fields" -> "he_missing_fields"
       [] m = "Invalid phone number format" -> "he_bad_phone"
       [] m = "Invalid code format" -> "he_bad_code"
       [] m = "Rate limit exceeded" -> "he_rate_limited"
       [] m = "Slot already booked" -> "he_slot_taken"
       [] m = "Slot not available" -> "he_slot_unavailable"]

sanitizeError(message) ==
  IF message \in DOMAIN SAFE_ERROR_MESSAGES THEN SAFE_ERROR_MESSAGES[message]
  ELSE "he_generic_error"

RATE_LIMITS_LaxLockout ==
  [sms_send |-> [maxAttempts |-> 3, windowMinutes |-> 60],
   verify_attempt |-> [maxAttempts |-> 10, windowMinutes |-> 15],
   verify_fail |-> [maxAttempts |-> 6, windowMinutes |-> 15]]

RATE_LIMITS ==
  [sms_send |-> [maxAttempts |-> 3, windowMinutes |-> 60],
   verify_attempt |-> [maxAttempts |-> 10, windowMinutes |-> 15],
   verify_fail |-> [maxAttempts |-> 5, windowMinutes |-> 15]]

(* check_rate_limit / record_rate_limit (security_fixes.sql) *)
check_rate_limit_inclusive(p_identifier, p_action_type, p_max_attempts, p_window_minutes) ==
  Cardinality({r \in rate_limits :
                 /\ r.identifier = p_identifier
                 /\ r.action_type = p_action_type
                 /\ r.created_at >= now - p_window_minutes}) < p_max_attempts

check_rate_limit_no_window(p_identifier, p_action_type, p_max_attempts, p_window_minutes) ==
  Cardinality({r \in rate_limits :
                 r.identifier = p_identifier /\ r.action_type = p_action_type}) < p_max_attempts

check_rate_limit(p_identifier, p_action_type, p_max_attempts, p_window_minutes) ==
  LET attempt_count ==
        Cardinality({r \in rate_limits :
                       /\ r.identifier = p_identifier
                       /\ r.action_type = p_action_type
                       /\ r.created_at > now - p_window_minutes})
  IN attempt_count < p_max_attempts

record_rate_limit_as_attempt(p_identifier, p_action_type) ==
  rate_limits \cup
    {[identifier |-> p_identifier, action_type |-> "verify_attempt", created_at |-> now,
      n |-> 1 + Cardinality({r \in rate_limits :
                               /\ r.identifier = p_identifier
                               /\ r.action_type = "verify_attempt"
                               /\ r.created_at = now})]}

record_rate_limit(p_identifier, p_action_type) ==
  rate_limits \cup
    {[identifier |-> p_identifier, action_type |-> p_action_type, created_at |-> now,
      n |-> 1 + Cardinality({r \in rate_limits :
                               /\ r.identifier = p_identifier
                               /\ r.action_type = p_action_type
                               /\ r.created_at = now})]}

cleanup_old_rate_limits_younger(age) ==
  {r \in rate_limits : ~(r.created_at < now - age \div 2)}

cleanup_old_rate_limits_older_than(age) ==
  {r \in rate_limits : ~(r.created_at < now - age)}

cleanup_old_rate_limits == cleanup_old_rate_limits_older_than(CLEANUP_AGE_MINUTES)

checkRateLimitFailClosed(identifier, actionType, rpcError) ==
  IF actionType \notin DOMAIN RATE_LIMITS THEN FALSE
  ELSE IF rpcError THEN FALSE
  ELSE check_rate_limit(identifier, actionType, RATE_LIMITS[actionType].maxAttempts,
                        RATE_LIMITS[actionType].windowMinutes)

checkRateLimit(identifier, actionType, rpcError) ==
  IF actionType \notin DOMAIN RATE_LIMITS THEN TRUE
  ELSE IF rpcError THEN TRUE
  ELSE check_rate_limit(identifier, actionType, RATE_LIMITS[actionType].maxAttempts,
                        RATE_LIMITS[actionType].windowMinutes)

recordRateLimit(identifier, actionType, rpcError) ==
  IF rpcError THEN rate_limits ELSE record_rate_limit(identifier, actionType)

(* what the caller of recordRateLimit sees of an RPC error: it is logged *)
recordRateLimitRethrows(rpcError) == rpcError

recordRateLimitThrows(rpcError) == FALSE

RateStart == RATE_LIMITS.sms_send.windowMinutes

today == now \div MINUTES_PER_DAY

isValidBookingDateExclusive(date) == date >= today /\ date < today + MAX_DAYS_AHEAD

isValidBookingDate(date) == date >= today /\ date <= today + MAX_DAYS_AHEAD

CodeFormatOk(code) == code \notin {"", "bad"}

(* ------------------------ storage: bookings --------------------------- *)
ActiveAtAnyStatus(date, time) ==
  {b \in bookings : b.booking_date = date /\ b.booking_time = time}

ActiveAt(date, time) ==
  {b \in bookings : b.booking_date = date /\ b.booking_time = time /\ b.status # "cancelled"}

NoUniqueIndex(date, time) == FALSE

UniqueViolation(date, time) == ActiveAt(date, time) # {}

NewBookingPending(p, name, phone, date, time) ==
  [id |-> p, customer_name |-> name, customer_phone |-> phone,
   booking_date |-> date, booking_time |-> time, status |-> "pending"]

NewBooking(p, name, phone, date, time) ==
  [id |-> p, customer_name |-> name, customer_phone |-> phone,
   booking_date |-> date, booking_time |-> time, status |-> "confirmed"]

ExistingBooking(date, time) == Cardinality(ActiveAt(date, time)) = 1

ClosedMatches(date, time) ==
  {c \in closed_slots : c.closed_date = date /\ (c.closed_time = {time} \/ c.closed_time = {})}

ClosedSlotFound(date, time) == Cardinality(ClosedMatches(date, time)) = 1

(* -------------------- storage: verification_codes --------------------- *)
ConsumeMatchIgnoringVerified(phone, code) ==
  {v \in verification_codes : v.phone = phone /\ v.code = code /\ v.expires_at > now}

ConsumeMatchInclusive(phone, code) ==
  {v \in verification_codes :
     v.phone = phone /\ v.code = code /\ v.verified = FALSE /\ v.expires_at >= now}

ConsumeMatch(phone, code) ==
  {v \in verification_codes :
     v.phone = phone /\ v.code = code /\ v.verified = FALSE /\ v.expires_at > now}

ConsumeUpdateNoFlip(phone, code) == verification_codes

ConsumeUpdate(phone, code) ==
  {IF v \in ConsumeMatch(phone, code) THEN [v EXCEPT !.verified = TRUE] ELSE v :
     v \in verification_codes}

(* ---------------------------- bookkeeping ----------------------------- *)
Finish(p, out) ==
  /\ pc' = [pc EXCEPT ![p] = "done"]
  /\ outcome' = [outcome EXCEPT ![p] = out]

Goto(p, label) ==
  /\ pc' = [pc EXCEPT ![p] = label]
  /\ UNCHANGED outcome

Wrote(p, table) == wrote' = [wrote EXCEPT ![p] = @ \cup {table}]

Failed(p, operation) == failed' = [failed EXCEPT ![p] = @ \cup {operation}]

OkVerifyBefore(phone, code) ==
  \E q \in Procs :
    /\ req[q].kind = "verify" /\ pc[q] = "done" /\ outcome[q].error = "none"
    /\ ~NormalizeThrows(phone)
    /\ normalizePhone(req[q].phone) = normalizePhone(phone) /\ req[q].code = code

IssuedFor(sub) == {i \in DOMAIN issued : issued[i].phone[2] = sub}

Superseded(phone, code) ==
  LET mine == IssuedFor(phone[2])
  IN /\ \E i \in mine : issued[i].code = code
     /\ \E j \in mine : (\A k \in mine : k <= j) /\ issued[j].code # code

Arrive(p, r) ==
  /\ pc[p] = "idle"
  /\ \A q \in Procs : q < p => pc[q] # "idle"
  /\ req' = [req EXCEPT ![p] = r]
  /\ pre' = [pre EXCEPT ![p] =
       [at |-> now,
        okVerify |-> OkVerifyBefore(r.phone, r.code),
        superseded |-> Superseded(r.phone, r.code),
        slotFree |-> ActiveAt(r.date, r.time) = {},
        gatesOpen |-> /\ ~NormalizeThrows(r.phone)
                      /\ checkRateLimit(normalizePhone(r.phone), "verify_attempt", FALSE)
                      /\ checkRateLimit(normalizePhone(r.phone), "verify_fail", FALSE)]]

(* ------ confirmation SMS after the insert: try / catch, log only ------ *)
DispatchEscalates(smsOk) ==
  IF smsOk THEN Resp(200, "none") ELSE Resp(500, sanitizeError("Failed to send SMS"))

DispatchOutcome(smsOk) == Resp(200, "none")

Dispatch(p, smsOk) ==
  /\ notify' = [notify EXCEPT ![p] = IF smsOk THEN "sent" ELSE "failed"]
  /\ Finish(p, DispatchOutcome(smsOk))

(* ------ bearer token -> auth.getUser -> has_role(user, 'admin') ------- *)
AuthFailureNoRole(cred) ==
  IF cred \in {"none", "invalid"} THEN {Resp(401, "Unauthorized")} ELSE {}

AuthFailure(cred) ==
  IF cred \in {"none", "invalid"} THEN {Resp(401, "Unauthorized")}
  ELSE IF cred # "admin" THEN {Resp(403, "Forbidden - Admin only")}
  ELSE {}

(* ------------------- create-booking (index.ts 31-193) ----------------- *)
CreateReceive(p, r) ==
  /\ r.kind = "create"
  /\ Arrive(p, r)
  /\ IF r.name = "" THEN Finish(p, Resp(500, sanitizeError("Missing required fields")))
     ELSE IF ~CodeFormatOk(r.code) THEN Finish(p, Resp(200, "he_bad_code"))
     ELSE IF NormalizeThrows(r.phone)
       THEN Finish(p, Resp(500, sanitizeError("Invalid phone number format")))
     ELSE IF ~isValidBookingDate(r.date) THEN Finish(p, Resp(200, "he_bad_date"))
     ELSE Goto(p, "c_consume")
  /\ UNCHANGED <<failed, now, verification_codes, bookings, rate_limits, closed_slots, wrote,
                 consumedBy, consumeAt, target, issued, probe, notify>>

CreateConsume(p, dbError) ==
  /\ pc[p] = "c_consume"
  /\ LET phone == normalizePhone(req[p].phone)
         hit == ConsumeMatch(phone, req[p].code)
     IN /\ consumeAt' = [consumeAt EXCEPT ![p] = now]
        /\ IF dbError
             THEN /\ Finish(p, Resp(500, sanitizeError("Database error")))
                  /\ Failed(p, "consume")
                  /\ UNCHANGED <<verification_codes, wrote, consumedBy>>
           ELSE IF hit = {}
             THEN /\ Finish(p, Resp(200, "he_bad_or_expired_code"))
                  /\ UNCHANGED <<verification_codes, wrote, consumedBy, failed>>
           ELSE /\ verification_codes' = ConsumeUpdate(phone, req[p].code)
                /\ consumedBy' = [consumedBy EXCEPT ![p] = (CHOOSE v \in hit : TRUE).id]
                /\ Wrote(p, "verification_codes")
                /\ Goto(p, "c_taken")
                /\ UNCHANGED failed
  /\ UNCHANGED <<now, bookings, rate_limits, closed_slots, req, target, pre, issued, probe, notify>>

CreateCheckTakenSkipsClosed(p, dbError) ==
  /\ pc[p] = "c_taken"
  /\ IF ~dbError /\ ExistingBooking(req[p].date, req[p].time)
       THEN Finish(p, Resp(200, "he_slot_taken"))
       ELSE Goto(p, "c_insert")
  /\ IF dbError THEN Failed(p, "taken") ELSE UNCHANGED failed
  /\ UNCHANGED <<now, verification_codes, bookings, rate_limits, closed_slots, req, wrote,
                 consumedBy, consumeAt, target, pre, issued, probe, notify>>

CreateCheckTaken(p, dbError) ==
  /\ pc[p] = "c_taken"
  /\ IF ~dbError /\ ExistingBooking(req[p].date, req[p].time)
       THEN Finish(p, Resp(200, "he_slot_taken"))
       ELSE Goto(p, "c_closed")
  /\ IF dbError THEN Failed(p, "taken") ELSE UNCHANGED failed
  /\ UNCHANGED <<now, verification_codes, bookings, rate_limits, closed_slots, req, wrote,
                 consumedBy, consumeAt, target, pre, issued, probe, notify>>

CreateCheckClosed(p, dbError) ==
  /\ pc[p] = "c_closed"
  /\ IF ~dbError /\ ClosedSlotFound(req[p].date, req[p].time)
       THEN Finish(p, Resp(200, "he_slot_unavailable"))
       ELSE Goto(p, "c_insert")
  /\ IF dbError THEN Failed(p, "closed") ELSE UNCHANGED failed
  /\ UNCHANGED <<now, verification_codes, bookings, rate_limits, closed_slots, req, wrote,
                 consumedBy, consumeAt, target, pre, issued, probe, notify>>

CreateInsert(p, dbError, smsOk) ==
  /\ pc[p] = "c_insert"
  /\ IF UniqueViolation(req[p].date, req[p].time)
       THEN /\ Finish(p, Resp(200, "he_slot_taken"))
            /\ UNCHANGED <<bookings, wrote, notify, failed>>
     ELSE IF dbError
       THEN /\ Finish(p, Resp(500, sanitizeError("Failed to create booking")))
            /\ Failed(p, "insert")
            /\ UNCHANGED <<bookings, wrote, notify>>
     ELSE /\ bookings' = bookings \cup
               {NewBooking(p, req[p].name, normalizePhone(req[p].phone), req[p].date, req[p].time)}
          /\ Wrote(p, "bookings")
          /\ Dispatch(p, smsOk)
          /\ UNCHANGED failed
  /\ UNCHANGED <<now, verification_codes, rate_limits, closed_slots, req, consumedBy,
                 consumeAt, target, pre, issued, probe>>

(* ------------- admin-create-booking (index.ts 225-384) ---------------- *)
AdminReceive(p, r) ==
  /\ r.kind = "admin"
  /\ Arrive(p, r)
  /\ IF AuthFailure(r.cred) # {} THEN Finish(p, CHOOSE e \in AuthFailure(r.cred) : TRUE)
     ELSE IF r.name = "" THEN Finish(p, Resp(500, sanitizeError("Missing required fields")))
     ELSE IF NormalizeThrows(r.phone)
       THEN Finish(p, Resp(500, sanitizeError("Invalid phone number format")))
     ELSE IF ~isValidBookingDate(r.date) THEN Finish(p, Resp(200, "he_bad_date"))
     ELSE Goto(p, "a_taken")
  /\ UNCHANGED <<failed, now, verification_codes, bookings, rate_limits, closed_slots, wrote,
                 consumedBy, consumeAt, target, issued, probe, notify>>

AdminCheckTaken(p, dbError) ==
  /\ pc[p] = "a_taken"
  /\ IF ~dbError /\ ExistingBooking(req[p].date, req[p].time)
       THEN Finish(p, Resp(200, "he_slot_taken"))
       ELSE Goto(p, "a_closed")
  /\ IF dbError THEN Failed(p, "taken") ELSE UNCHANGED failed
  /\ UNCHANGED <<now, verification_codes, bookings, rate_limits, closed_slots, req, wrote,
                 consumedBy, consumeAt, target, pre, issued, probe, notify>>

AdminCheckClosed(p, dbError) ==
  /\ pc[p] = "a_closed"
  /\ IF ~dbError /\ ClosedSlotFound(req[p].date, req[p].time)
       THEN Finish(p, Resp(200, "he_slot_closed"))
       ELSE Goto(p, "a_insert")
  /\ IF dbError THEN Failed(p, "closed") ELSE UNCHANGED failed
  /\ UNCHANGED <<now, verification_codes, bookings, rate_limits, closed_slots, req, wrote,
                 consumedBy, consumeAt, target, pre, issued, probe, notify>>

AdminInsert(p, dbError, smsOk) ==
  /\ pc[p] = "a_insert"
  /\ IF UniqueViolation(req[p].date, req[p].time)
       THEN /\ Finish(p, Resp(200, "he_slot_taken"))
            /\ UNCHANGED <<bookings, wrote, notify, failed>>
     ELSE IF dbError
       THEN /\ Finish(p, Resp(500, sanitizeError("Failed to create booking")))
            /\ Failed(p, "insert")
            /\ UNCHANGED <<bookings, wrote, notify>>
     ELSE /\ bookings' = bookings \cup
               {NewBooking(p, req[p].name, normalizePhone(req[p].phone), req[p].date, req[p].time)}
          /\ Wrote(p, "bookings")
          /\ Dispatch(p, smsOk)
          /\ UNCHANGED failed
  /\ UNCHANGED <<now, verification_codes, rate_limits, closed_slots, req, consumedBy,
                 consumeAt, target, pre, issued, probe>>

(* ------------- admin-create-booking, part_001 (17-140) ---------------- *)
LegacyAdminReceive(p, r) ==
  /\ r.kind = "legacy_admin"
  /\ Arrive(p, r)
  /\ IF AuthFailure(r.cred) # {} THEN Finish(p, CHOOSE e \in AuthFailure(r.cred) : TRUE)
     ELSE IF r.name = "" THEN Finish(p, Resp(500, "Missing required fields"))
     ELSE Goto(p, "l_insert")
  /\ UNCHANGED <<failed, now, verification_codes, bookings, rate_limits, closed_slots, wrote,
                 consumedBy, consumeAt, target, issued, probe, notify>>

LegacyAdminInsert(p, dbError, smsOk) ==
  /\ pc[p] = "l_insert"
  /\ IF UniqueViolation(req[p].date, req[p].time) \/ dbError
       THEN /\ Finish(p, Resp(500, "Failed to create booking"))
            /\ IF UniqueViolation(req[p].date, req[p].time)
                 THEN UNCHANGED failed ELSE Failed(p, "insert")
            /\ UNCHANGED <<bookings, wrote, notify>>
       ELSE /\ bookings' = bookings \cup
                 {NewBooking(p, req[p].name, req[p].phone, req[p].date, req[p].time)}
            /\ Wrote(p, "bookings")
            /\ Dispatch(p, smsOk)
            /\ UNCHANGED failed
  /\ UNCHANGED <<now, verification_codes, rate_limits, closed_slots, req, consumedBy,
                 consumeAt, target, pre, issued, probe>>

(* ------------------------- sms-webhook (23-114) ------------------------ *)
webhookToLocalPhone(from) == IF from[1] = "e164" THEN <<"local", from[2]>> ELSE from

BookingMinute(b) == b.booking_date * MINUTES_PER_DAY + b.booking_time * MINUTES_PER_HOUR

Earlier(a, b) ==
  \/ a.booking_date < b.booking_date
  \/ a.booking_date = b.booking_date /\ a.booking_time < b.booking_time
  \/ a.booking_date = b.booking_date /\ a.booking_time = b.booking_time /\ a.id < b.id

Fetched(phone) == {b \in bookings : b.customer_phone = phone /\ b.status # "cancelled"}

CancellableStrict(phone) ==
  {b \in Fetched(phone) : BookingMinute(b) - now > THREE_HOURS_MIN}

CancellableAny(phone) == Fetched(phone)

(* new Date(`${booking_date}T${timePart}`) is a valid date-time *)
ComposesDateTime(b) == b.booking_time \in 0 .. 23

CancellableUntilMalformed(phone) ==
  {b \in Fetched(phone) :
     /\ ComposesDateTime(b) /\ BookingMinute(b) - now >= THREE_HOURS_MIN
     /\ \A m \in Fetched(phone) : Earlier(m, b) => ComposesDateTime(m)}

Cancellable(phone) ==
  {b \in Fetched(phone) : ComposesDateTime(b) /\ BookingMinute(b) - now >= THREE_HOURS_MIN}

CancelReceive(p, r) ==
  /\ r.kind = "cancel"
  /\ Arrive(p, r)
  /\ IF r.body # "0" THEN /\ Finish(p, Resp(200, "he_unknown_command"))
                          /\ UNCHANGED target
     ELSE LET c == Cancellable(webhookToLocalPhone(r.phone))
          IN IF c = {} THEN /\ Finish(p, Resp(200, "he_not_cancellable"))
                            /\ UNCHANGED target
             ELSE /\ target' = [target EXCEPT ![p] =
                        (CHOOSE b \in c : \A o \in c : o = b \/ Earlier(b, o)).id]
                  /\ Goto(p, "x_update")
  /\ UNCHANGED <<failed, now, verification_codes, bookings, rate_limits, closed_slots, wrote,
                 consumedBy, consumeAt, issued, probe, notify>>

CancelUpdate(p, dbError) ==
  /\ pc[p] = "x_update"
  /\ IF dbError
       THEN /\ Finish(p, Resp(200, "he_cancel_failed"))
            /\ UNCHANGED <<bookings, wrote>>
       ELSE /\ bookings' = {IF b.id = target[p] THEN [b EXCEPT !.status = "cancelled"] ELSE b :
                             b \in bookings}
            /\ Wrote(p, "bookings")
            /\ Finish(p, Resp(200, "he_cancelled"))
  /\ UNCHANGED <<failed, now, verification_codes, rate_limits, closed_slots, req, consumedBy,
                 consumeAt, target, pre, issued, probe, notify>>

(* ----------------------- verify-code (part_003) ----------------------- *)
VerifyReceive(p, r) ==
  /\ r.kind = "verify"
  /\ Arrive(p, r)
  /\ IF r.code = "" THEN Finish(p, Resp(500, sanitizeError("Phone and code are required")))
     ELSE IF ~CodeFormatOk(r.code) THEN Finish(p, Resp(500, sanitizeError("Invalid code format")))
     ELSE IF NormalizeThrows(r.phone)
       THEN Finish(p, Resp(500, sanitizeError("Invalid phone number format")))
     ELSE Goto(p, "v_attempt")
  /\ UNCHANGED <<failed, now, verification_codes, bookings, rate_limits, closed_slots, wrote,
                 consumedBy, consumeAt, target, issued, probe, notify>>

VerifyCheckAttempt(p, rpcError) ==
  /\ pc[p] = "v_attempt"
  /\ IF checkRateLimit(normalizePhone(req[p].phone), "verify_attempt", rpcError)
       THEN Goto(p, "v_fail")
       ELSE Finish(p, Resp(429, "he_rate_limited_15"))
  /\ UNCHANGED <<failed, now, verification_codes, bookings, rate_limits, closed_slots, req, wrote,
                 consumedBy, consumeAt, target, pre, issued, probe, notify>>

VerifyCheckFail(p, rpcError) ==
  /\ pc[p] = "v_fail"
  /\ IF checkRateLimit(normalizePhone(req[p].phone), "verify_fail", rpcError)
       THEN Goto(p, "v_record")
       ELSE Finish(p, Resp(429, "he_locked_15"))
  /\ UNCHANGED <<failed, now, verification_codes, bookings, rate_limits, closed_slots, req, wrote,
                 consumedBy, consumeAt, target, pre, issued, probe, notify>>

VerifyRecordAttempt(p, rpcError) ==
  /\ pc[p] = "v_record"
  /\ rate_limits' = recordRateLimit(normalizePhone(req[p].phone), "verify_attempt", rpcError)
  /\ IF rpcError THEN UNCHANGED wrote ELSE Wrote(p, "rate_limits")
  /\ IF recordRateLimitThrows(rpcError)
       THEN Finish(p, Resp(500, sanitizeError("Rate limit record error")))
       ELSE Goto(p, "v_consume")
  /\ UNCHANGED <<failed, now, verification_codes, bookings, closed_slots, req, consumedBy,
                 consumeAt, target, pre, issued, probe, notify>>

VerifyConsume(p, dbError) ==
  /\ pc[p] = "v_consume"
  /\ LET phone == normalizePhone(req[p].phone)
         hit == ConsumeMatch(phone, req[p].code)
     IN /\ consumeAt' = [consumeAt EXCEPT ![p] = now]
        /\ IF dbError
             THEN /\ Finish(p, Resp(500, sanitizeError("Database error")))
                  /\ Failed(p, "consume")
                  /\ UNCHANGED <<verification_codes, wrote, consumedBy>>
           ELSE IF hit = {}
             THEN /\ Goto(p, "v_recfail")
                  /\ UNCHANGED <<verification_codes, wrote, consumedBy, failed>>
           ELSE /\ verification_codes' = ConsumeUpdate(phone, req[p].code)
                /\ consumedBy' = [consumedBy EXCEPT ![p] = (CHOOSE v \in hit : TRUE).id]
                /\ Wrote(p, "verification_codes")
                /\ Finish(p, Resp(200, "none"))
                /\ UNCHANGED failed
  /\ UNCHANGED <<now, bookings, rate_limits, closed_slots, req, target, pre, issued, probe, notify>>

VerifyRecordFail(p, rpcError) ==
  /\ pc[p] = "v_recfail"
  /\ rate_limits' = recordRateLimit(normalizePhone(req[p].phone), "verify_fail", rpcError)
  /\ IF rpcError THEN UNCHANGED wrote ELSE Wrote(p, "rate_limits")
  /\ IF recordRateLimitThrows(rpcError)
       THEN Finish(p, Resp(500, sanitizeError("Rate limit record error")))
       ELSE Finish(p, Resp(200, "he_bad_or_expired_code"))
  /\ UNCHANGED <<failed, now, verification_codes, bookings, closed_slots, req, consumedBy,
                 consumeAt, target, pre, issued, probe, notify>>

(* ---------------- send-sms, case "verification" (part_002) ------------ *)
SmsPhoneOk(phone) == phone[1] = "local"

SmsStoredNormalized(phone) == normalizePhone(phone)

SmsStoredPhone(phone) == phone

SmsReceive(p, r) ==
  /\ r.kind = "sms"
  /\ Arrive(p, r)
  /\ IF ~SmsPhoneOk(r.phone) THEN Finish(p, Resp(500, "Invalid phone number format"))
     ELSE Goto(p, "s_delete")
  /\ UNCHANGED <<failed, now, verification_codes, bookings, rate_limits, closed_slots, wrote,
                 consumedBy, consumeAt, target, issued, probe, notify>>

SmsDelete(p) ==
  /\ pc[p] = "s_delete"
  /\ verification_codes' = {v \in verification_codes : v.phone # req[p].phone}
  /\ Wrote(p, "verification_codes")
  /\ Goto(p, "s_insert")
  /\ UNCHANGED <<failed, now, bookings, rate_limits, closed_slots, req, consumedBy, consumeAt,
                 target, pre, issued, probe, notify>>

SmsInsert(p, twilioOk) ==
  /\ pc[p] = "s_insert"
  /\ verification_codes' = verification_codes \cup
       {[id |-> p, phone |-> SmsStoredPhone(req[p].phone), code |-> req[p].code,
         expires_at |-> now + CODE_TTL_MINUTES, verified |-> FALSE]}
  /\ issued' = Append(issued, [phone |-> req[p].phone, code |-> req[p].code])
  /\ Wrote(p, "verification_codes")
  /\ IF twilioOk THEN Finish(p, Resp(200, "none")) ELSE Finish(p, Resp(500, "Failed to send SMS"))
  /\ UNCHANGED <<failed, now, bookings, rate_limits, closed_slots, req, consumedBy, consumeAt,
                 target, pre, probe, notify>>

(* ------------- direct calls of the rate limiter (part_000) ------------ *)
RateCheck(identifier, actionType, rpcError) ==
  /\ probe' = [identifier |-> identifier, action |-> actionType, rpcError |-> rpcError,
               result |-> checkRateLimit(identifier, actionType, rpcError)]
  /\ UNCHANGED <<failed, now, verification_codes, bookings, rate_limits, closed_slots, pc, req,
                 outcome, wrote, consumedBy, consumeAt, target, pre, issued, notify>>

RateRecord(identifier, actionType, rpcError) ==
  /\ Cardinality({r \in rate_limits : r.created_at >= RateStart}) < MaxRecorded
  /\ rate_limits' = recordRateLimit(identifier, actionType, rpcError)
  /\ probe' = NoProbe
  /\ UNCHANGED <<failed, now, verification_codes, bookings, closed_slots, pc, req, outcome, wrote,
                 consumedBy, consumeAt, target, pre, issued, notify>>

Cleanup ==
  /\ probe' = [identifier |-> <<"bad", "s1">>, action |-> "cleanup", rpcError |-> FALSE,
               result |-> cleanup_old_rate_limits # rate_limits]
  /\ rate_limits' = cleanup_old_rate_limits
  /\ UNCHANGED <<now, verification_codes, bookings, closed_slots, pc, req, outcome, wrote,
                 consumedBy, consumeAt, target, pre, issued, notify, failed>>

(* ------------------------------- clock -------------------------------- *)
Tick(d, limit) ==
  /\ now + d <= limit
  /\ now' = now + d
  /\ probe' = NoProbe
  /\ UNCHANGED <<failed, verification_codes, bookings, rate_limits, closed_slots, pc, req, outcome,
                 wrote, consumedBy, consumeAt, target, pre, issued, notify>>

(* --------------------------- initial states --------------------------- *)
StoredCode(id, sub, code, expires) ==
  [id |-> id, phone |-> <<"e164", sub>>, code |-> code, expires_at |-> expires,
   verified |-> FALSE]

InitProcs ==
  /\ pc = [p \in Procs |-> "idle"]
  /\ req = [p \in Procs |-> NoReq]
  /\ outcome = [p \in Procs |-> NoOutcome]
  /\ wrote = [p \in Procs |-> {}]
  /\ consumedBy = [p \in Procs |-> 0]
  /\ consumeAt = [p \in Procs |-> -1]
  /\ target = [p \in Procs |-> 0]
  /\ pre = [p \in Procs |-> NoPre]
  /\ issued = <<>>
  /\ probe = NoProbe
  /\ notify = [p \in Procs |-> "none"]
  /\ failed = [p \in Procs |-> {}]

(* --------- bookings: create, admin, legacy admin and cancel ----------- *)
BookingRequests ==
  {[kind |-> "create", phone |-> <<"local", "s1">>, code |-> "c1", name |-> "Dana",
    date |-> 0, time |-> 9, cred |-> "none", body |-> ""],
   [kind |-> "create", phone |-> <<"local", "s2">>, code |-> "c2", name |-> "Noa",
    date |-> 0, time |-> 9, cred |-> "none", body |-> ""],
   [kind |-> "admin", phone |-> <<"local", "s1">>, code |-> "", name |-> "Dana",
    date |-> 0, time |-> 9, cred |-> "admin", body |-> ""],
   [kind |-> "admin", phone |-> <<"local", "s2">>, code |-> "", name |-> "Noa",
    date |-> 0, time |-> 9, cred |-> "user", body |-> ""],
   [kind |-> "legacy_admin", phone |-> <<"local", "s1">>, code |-> "", name |-> "Dana",
    date |-> 0, time |-> 9, cred |-> "admin", body |-> ""],
   [kind |-> "legacy_admin", phone |-> <<"local", "s1">>, code |-> "", name |-> "Dana",
    date |-> 0, time |-> 9, cred |-> "none", body |-> ""],
   [kind |-> "cancel", phone |-> <<"e164", "s1">>, code |-> "", name |-> "",
    date |-> 0, time |-> 0, cred |-> "none", body |-> "0"],
   [kind |-> "cancel", phone |-> <<"e164", "s1">>, code |-> "", name |-> "",
    date |-> 0, time |-> 0, cred |-> "none", body |-> "hello"]}

InitBooking ==
  /\ now = 0
  /\ verification_codes = {StoredCode(101, "s1", "c1", CODE_TTL_MINUTES),
                           StoredCode(102, "s2", "c2", CODE_TTL_MINUTES)}
  /\ bookings = {}
  /\ rate_limits = {}
  /\ closed_slots = {}
  /\ InitProcs

NextBooking ==
  \/ \E p \in Procs, r \in BookingRequests : CreateReceive(p, r)
  \/ \E p \in Procs : CreateConsume(p, FALSE)
  \/ \E p \in Procs : CreateCheckTaken(p, FALSE)
  \/ \E p \in Procs : CreateCheckClosed(p, FALSE)
  \/ \E p \in Procs, smsOk \in BOOLEAN : CreateInsert(p, FALSE, smsOk)
  \/ \E p \in Procs, r \in BookingRequests : AdminReceive(p, r)
  \/ \E p \in Procs : AdminCheckTaken(p, FALSE)
  \/ \E p \in Procs : AdminCheckClosed(p, FALSE)
  \/ \E p \in Procs, smsOk \in BOOLEAN : AdminInsert(p, FALSE, smsOk)
  \/ \E p \in Procs, r \in BookingRequests : LegacyAdminReceive(p, r)
  \/ \E p \in Procs, smsOk \in BOOLEAN : LegacyAdminInsert(p, FALSE, smsOk)
  \/ \E p \in Procs, r \in BookingRequests : CancelReceive(p, r)
  \/ \E p \in Procs : CancelUpdate(p, FALSE)

SpecBooking == InitBooking /\ [][NextBooking]_vars

(* ------------- concurrent verify-code calls, no clock ----------------- *)
PriorFailedVerifies(sub, k) ==
  {[identifier |-> <<"e164", sub>>, action_type |-> a, created_at |-> 0, n |-> i] :
     a \in {"verify_attempt", "verify_fail"}, i \in 1 .. k}

RaceRequests ==
  {[kind |-> "verify", phone |-> <<"local", "s1">>, code |-> "c1", name |-> "",
    date |-> 0, time |-> 0, cred |-> "none", body |-> ""],
   [kind |-> "verify", phone |-> <<"e164", "s1">>, code |-> "c2", name |-> "",
    date |-> 0, time |-> 0, cred |-> "none", body |-> ""]}

InitRace ==
  /\ now = 0
  /\ verification_codes = {StoredCode(101, "s1", "c1", CODE_TTL_MINUTES)}
  /\ bookings = {}
  /\ \E k \in {0, MaxPriorFails} : rate_limits = PriorFailedVerifies("s1", k)
  /\ closed_slots = {}
  /\ InitProcs

NextRace ==
  \/ \E p \in Procs, r \in RaceRequests : VerifyReceive(p, r)
  \/ \E p \in Procs, e \in BOOLEAN : VerifyCheckAttempt(p, e)
  \/ \E p \in Procs, e \in BOOLEAN : VerifyCheckFail(p, e)
  \/ \E p \in Procs, e \in BOOLEAN : VerifyRecordAttempt(p, e)
  \/ \E p \in Procs : VerifyConsume(p, FALSE)
  \/ \E p \in Procs, e \in BOOLEAN : VerifyRecordFail(p, e)

SpecRace == InitRace /\ [][NextRace]_vars

(* ------ verify-code and create-booking on one stored code, clock ------ *)
VerifyRequests ==
  {[kind |-> "verify", phone |-> <<"local", "s1">>, code |-> "c1", name |-> "",
    date |-> 0, time |-> 0, cred |-> "none", body |-> ""],
   [kind |-> "verify", phone |-> <<"local", "s1">>, code |-> "c2", name |-> "",
    date |-> 0, time |-> 0, cred |-> "none", body |-> ""],
   [kind |-> "create", phone |-> <<"e164", "s1">>, code |-> "c1", name |-> "Dana",
    date |-> 0, time |-> 9, cred |-> "none", body |-> ""]}

InitVerify ==
  /\ now = 0
  /\ verification_codes = {StoredCode(101, "s1", "c1", MaxNow - 1)}
  /\ bookings = {}
  /\ rate_limits = {}
  /\ closed_slots = {}
  /\ InitProcs

NextVerify ==
  \/ \E p \in 1 .. FlowProcs, r \in VerifyRequests : VerifyReceive(p, r)
  \/ \E p \in 1 .. FlowProcs : VerifyCheckAttempt(p, FALSE)
  \/ \E p \in 1 .. FlowProcs : VerifyCheckFail(p, FALSE)
  \/ \E p \in 1 .. FlowProcs : VerifyRecordAttempt(p, FALSE)
  \/ \E p \in 1 .. FlowProcs : VerifyConsume(p, FALSE)
  \/ \E p \in 1 .. FlowProcs : VerifyRecordFail(p, FALSE)
  \/ \E p \in 1 .. FlowProcs, r \in VerifyRequests : CreateReceive(p, r)
  \/ \E p \in 1 .. FlowProcs : CreateConsume(p, FALSE)
  \/ \E p \in 1 .. FlowProcs : CreateCheckTaken(p, FALSE)
  \/ \E p \in 1 .. FlowProcs : CreateCheckClosed(p, FALSE)
  \/ \E p \in 1 .. FlowProcs, smsOk \in BOOLEAN : CreateInsert(p, FALSE, smsOk)
  \/ Tick(1, MaxNow)

SpecVerify == InitVerify /\ [][NextVerify]_vars

(* -------- issuance from an empty table, then verify and create -------- *)
IssueRequests ==
  {[kind |-> "sms", phone |-> <<"local", "s1">>, code |-> "c1", name |-> "",
    date |-> 0, time |-> 0, cred |-> "none", body |-> ""],
   [kind |-> "sms", phone |-> <<"local", "s1">>, code |-> "c2", name |-> "",
    date |-> 0, time |-> 0, cred |-> "none", body |-> ""],
   [kind |-> "sms", phone |-> <<"e164", "s1">>, code |-> "c2", name |-> "",
    date |-> 0, time |-> 0, cred |-> "none", body |-> ""],
   [kind |-> "verify", phone |-> <<"local", "s1">>, code |-> "c1", name |-> "",
    date |-> 0, time |-> 0, cred |-> "none", body |-> ""],
   [kind |-> "create", phone |-> <<"local", "s1">>, code |-> "c1", name |-> "Dana",
    date |-> 0, time |-> 9, cred |-> "none", body |-> ""]}

InitIssue ==
  /\ now = 0
  /\ verification_codes = {}
  /\ bookings = {}
  /\ \E k \in {0, RATE_LIMITS.verify_fail.maxAttempts} :
       rate_limits = PriorFailedVerifies("s1", k)
  /\ closed_slots = {}
  /\ InitProcs

NextIssue ==
  \/ \E p \in Procs, r \in IssueRequests : SmsReceive(p, r)
  \/ \E p \in Procs : SmsDelete(p)
  \/ \E p \in Procs, ok \in BOOLEAN : SmsInsert(p, ok)
  \/ \E p \in Procs, r \in IssueRequests : VerifyReceive(p, r)
  \/ \E p \in Procs : VerifyCheckAttempt(p, FALSE)
  \/ \E p \in Procs : VerifyCheckFail(p, FALSE)
  \/ \E p \in Procs : VerifyRecordAttempt(p, FALSE)
  \/ \E p \in Procs : VerifyConsume(p, FALSE)
  \/ \E p \in Procs : VerifyRecordFail(p, FALSE)
  \/ \E p \in Procs, r \in IssueRequests : CreateReceive(p, r)
  \/ \E p \in Procs : CreateConsume(p, FALSE)

SpecIssue == InitIssue /\ [][NextIssue]_vars
(* ---------- the rate limiter alone, over drawn tables ------------------ *)
RateRows(identifier, action, at, k) ==
  {[identifier |-> identifier, action_type |-> action, created_at |-> at, n |-> i] :
     i \in 1 .. k}

InitRate ==
  /\ now = RateStart
  /\ \E a \in ActionTypes, newer \in 0 .. MaxNewer, old \in 0 .. 1, other \in 0 .. 1 :
       rate_limits =
         RateRows(<<"e164", "s1">>, a, now - RATE_LIMITS[a].windowMinutes + 1, newer)
         \cup RateRows(<<"e164", "s1">>, a, now - RATE_LIMITS[a].windowMinutes, old)
         \cup RateRows(<<"e164", "s2">>, a, now - 1, other)
         \cup RateRows(<<"e164", "s1">>, CHOOSE b \in ActionTypes : b # a, now - 1, other)
  /\ verification_codes = {}
  /\ bookings = {}
  /\ closed_slots = {}
  /\ InitProcs

NextRate ==
  \/ \E s \in Subscribers, a \in ActionTypes \cup {"unknown"}, e \in BOOLEAN :
       RateCheck(<<"e164", s>>, a, e)
  \/ \E s \in Subscribers, a \in ActionTypes, e \in BOOLEAN : RateRecord(<<"e164", s>>, a, e)
  \/ Tick(1, RateStart + 1)

SpecRate == InitRate /\ [][NextRate]_vars

(* ------- verify-code calls spread over one rate-limit window ---------- *)
WindowEnd == RATE_LIMITS.verify_fail.windowMinutes + TickStep

InitWindow ==
  /\ now = 0
  /\ verification_codes = {StoredCode(101, "s1", "c1", CODE_TTL_MINUTES)}
  /\ bookings = {}
  /\ \E k \in {MaxPriorFails, RATE_LIMITS.verify_fail.maxAttempts},
        a \in {0, RATE_LIMITS.verify_attempt.maxAttempts - 1} :
       rate_limits = RateRows(<<"e164", "s1">>, "verify_fail", 0, k)
                     \cup RateRows(<<"e164", "s1">>, "verify_attempt", 0, IF a > k THEN a ELSE k)
  /\ closed_slots = {}
  /\ InitProcs

NextWindow ==
  \/ \E p \in 1 .. FlowProcs, r \in RaceRequests : VerifyReceive(p, r)
  \/ \E p \in 1 .. FlowProcs : VerifyCheckAttempt(p, FALSE)
  \/ \E p \in 1 .. FlowProcs : VerifyCheckFail(p, FALSE)
  \/ \E p \in 1 .. FlowProcs : VerifyRecordAttempt(p, FALSE)
  \/ \E p \in 1 .. FlowProcs : VerifyConsume(p, FALSE)
  \/ \E p \in 1 .. FlowProcs : VerifyRecordFail(p, FALSE)
  \/ Tick(TickStep, WindowEnd)

SpecWindow == InitWindow /\ [][NextWindow]_vars

(* ======================= the claims, C1 to C10 ======================== *)
Done(p) == pc[p] = "done"

Started == {p \in Procs : pc[p] # "idle"}

Ok(p) == Done(p) /\ outcome[p] = Resp(200, "none")

InvalidOrExpiredCode == Resp(200, "he_bad_or_expired_code")

RateLimitedOrLockedOut == {Resp(429, "he_rate_limited_15"), Resp(429, "he_locked_15")}

SlotUnavailable ==
  {Resp(200, "he_slot_taken"), Resp(200, "he_slot_unavailable"), Resp(200, "he_slot_closed")}

SameSlot(a, b) == a.booking_date = b.booking_date /\ a.booking_time = b.booking_time

Presents(p, v) ==
  /\ ~NormalizeThrows(req[p].phone)
  /\ normalizePhone(req[p].phone) = v.phone
  /\ req[p].code = v.code

(* C1: in every reachable state each (booking_date, booking_time) has at most
   one booking whose status is not cancelled, whatever the interleaving of
   create-booking, both admin-create-booking handlers and sms-webhook. *)
C1_OneActiveBookingPerSlot ==
  \A a, b \in bookings :
    (SameSlot(a, b) /\ a.status # "cancelled" /\ b.status # "cancelled") => a = b

(* C1's case: a slot that was booked, cancelled and booked again. *)
C1_Witness ==
  \E a, b \in bookings : SameSlot(a, b) /\ a.status = "cancelled" /\ b.status = "confirmed"

(* C2 as stated: when every request is a valid create / admin create call
   for one slot that was free when the call arrived and is open, the public
   ones holding distinct stored codes, and all have returned, exactly one
   returned Created and every other one returned SlotUnavailable. *)
Racer(p) == req[p].kind \in {"create", "admin", "legacy_admin"}

ValidRacer(p) ==
  /\ req[p].name # ""
  /\ ~NormalizeThrows(req[p].phone)
  /\ isValidBookingDate(req[p].date)
  /\ pre[p].slotFree
  /\ ClosedMatches(req[p].date, req[p].time) = {}
  /\ IF req[p].kind = "create"
       THEN \E v \in verification_codes : Presents(p, v)
       ELSE req[p].cred = "admin"

RaceOver(R) ==
  /\ R # {}
  /\ R = Started
  /\ \A p \in R : Done(p) /\ Racer(p) /\ ValidRacer(p)
  /\ \A p, q \in R : req[p].date = req[q].date /\ req[p].time = req[q].time
  /\ \A p, q \in R :
       (p # q /\ req[p].kind = "create" /\ req[q].kind = "create")
         => <<normalizePhone(req[p].phone), req[p].code>>
              # <<normalizePhone(req[q].phone), req[q].code>>

OneWinner(R) ==
  /\ Cardinality({p \in R : Ok(p)}) = 1
  /\ \A p \in R : Ok(p) \/ outcome[p] \in SlotUnavailable

C2_ExactlyOneCreated == RaceOver(Started) => OneWinner(Started)

(* The same race among create-booking and the admin handler of
   create-booking/index.ts only (no part_001 request). *)
C2_CurrentHandlersOneCreated ==
  (RaceOver(Started) /\ \A p \in Started : req[p].kind # "legacy_admin")
    => OneWinner(Started)

(* C3 as stated: when every request is a verify call presenting the same
   stored, unexpired code and all have returned, exactly one returned
   success and every other one returned InvalidOrExpiredCode. *)
SameCodeVerifies ==
  /\ Started # {}
  /\ \E v \in verification_codes :
       /\ v.expires_at > now
       /\ \A p \in Started : Done(p) /\ req[p].kind = "verify" /\ Presents(p, v)

C3_ExactlyOneSuccess ==
  SameCodeVerifies =>
    /\ Cardinality({p \in Started : Ok(p)}) = 1
    /\ \A p \in Started : Ok(p) \/ outcome[p] = InvalidOrExpiredCode

(* C3 amended: among such calls at most one returns success; every other
   one returns InvalidOrExpiredCode, or RateLimited / LockedOut when it is
   turned away at a rate-limit gate before its consume; exactly one call
   succeeds as soon as one call reaches the consume, which happens whenever
   every call arrived with both limits not reached. *)
C3_OneSuccessOrGated ==
  SameCodeVerifies =>
    /\ Cardinality({p \in Started : Ok(p)}) <= 1
    /\ \A p \in Started :
         \/ Ok(p)
         \/ outcome[p] = InvalidOrExpiredCode /\ consumeAt[p] >= 0
         \/ outcome[p] \in RateLimitedOrLockedOut /\ consumeAt[p] < 0
    /\ (\E p \in Started : consumeAt[p] >= 0) => \E p \in Started : Ok(p)
    /\ (\A p \in Started : pre[p].gatesOpen) => \E p \in Started : Ok(p)

(* C3's case: three calls, one success, one loser and one locked out. *)
C3_Witness ==
  /\ SameCodeVerifies
  /\ \E p, q, r \in Started :
       /\ Ok(p)
       /\ outcome[q] = InvalidOrExpiredCode
       /\ outcome[r] = Resp(429, "he_locked_15")

(* C4: a verification row is consumed by at most one call over verify and
   createBooking together; the row is verified exactly when some call
   consumed it and is otherwise unchanged; a call whose consume matched no
   row (used, wrong or expired code) has not modified the table. *)
C4_ConsumedAtMostOnce ==
  /\ \A v \in verification_codes :
       /\ Cardinality({p \in Procs : consumedBy[p] = v.id}) <= 1
       /\ v.verified <=> \E p \in Procs : consumedBy[p] = v.id
       /\ [v EXCEPT !.verified = FALSE] = StoredCode(101, "s1", "c1", MaxNow - 1)
  /\ \A p \in Procs :
       (consumeAt[p] >= 0 /\ consumedBy[p] = 0) => "verification_codes" \notin wrote[p]

(* C4's case: verify consumed the row and a later createBooking with the
   same, still unexpired code observed no row. *)
C4_Witness ==
  \E v \in verification_codes, p, q \in Procs :
    /\ v.verified /\ v.expires_at > now
    /\ req[p].kind = "verify" /\ consumedBy[p] = v.id
    /\ req[q].kind = "create" /\ Presents(q, v) /\ Done(q)
    /\ consumeAt[q] >= consumeAt[p] /\ consumedBy[q] = 0
    /\ outcome[q] = InvalidOrExpiredCode

(* C5 as stated: createBooking that arrives after verify returned success
   for the same phone and code, with the code still unexpired, a valid date
   and a free, open slot, returns ok. *)
C5_VerifiedCodeBooks ==
  \A p \in Procs :
    ( /\ req[p].kind = "create" /\ Done(p)
      /\ pre[p].okVerify
      /\ \E v \in verification_codes : Presents(p, v) /\ v.expires_at > now
      /\ req[p].name # ""
      /\ isValidBookingDate(req[p].date)
      /\ pre[p].slotFree
      /\ \A b \in ActiveAt(req[p].date, req[p].time) : b.id = p
      /\ ClosedMatches(req[p].date, req[p].time) = {} )
    => Ok(p)

(* C6 as stated: a createBooking call that returned an error has modified
   no table; one rejected with SlotUnavailable left its code unconsumed. *)
C6_ErrorLeavesStateUnchanged ==
  \A p \in Procs :
    (req[p].kind = "create" /\ Done(p) /\ ~Ok(p)) =>
      /\ wrote[p] = {}
      /\ outcome[p] \in SlotUnavailable =>
           \A v \in verification_codes : Presents(p, v) => ~v.verified

(* C7: a consume made at a time t with expires_at <= t, presenting the
   row's own phone and code, does not consume the row: the call (verify or
   createBooking) returns InvalidOrExpiredCode, and a row is verified only
   by a consume made strictly before its expires_at. *)
C7_ExpiredNeverConsumed ==
  \A v \in verification_codes :
    /\ \A p \in Procs :
         (consumeAt[p] >= v.expires_at /\ Presents(p, v)) =>
           /\ consumedBy[p] # v.id
           /\ Done(p) => outcome[p] = InvalidOrExpiredCode
    /\ v.verified =>
         \E q \in Procs : consumedBy[q] = v.id /\ consumeAt[q] < v.expires_at

(* C7's case: verify consumed exactly at expires_at and createBooking
   after it, both with the matching phone and code; the row is unverified. *)
C7_Witness ==
  \E v \in verification_codes, p, q \in Procs :
    /\ ~v.verified
    /\ req[p].kind = "verify" /\ Presents(p, v) /\ Done(p) /\ consumeAt[p] = v.expires_at
    /\ req[q].kind = "create" /\ Presents(q, v) /\ Done(q) /\ consumeAt[q] > v.expires_at
    /\ outcome[p] = InvalidOrExpiredCode /\ outcome[q] = InvalidOrExpiredCode

(* C8 as stated: a verify or createBooking call that arrives after a later
   issuance with another code completed for the phone, and presents the
   earlier code, returns InvalidOrExpiredCode. *)
PresentsOldCode(p) ==
  /\ req[p].kind \in {"verify", "create"}
  /\ pre[p].superseded
  /\ req[p].name # "" \/ req[p].kind = "verify"
  /\ isValidBookingDate(req[p].date)

C9_OneRowPerPhone ==
  (\A p \in Procs : req[p].kind = "sms" => Done(p)) =>
    \A v, w \in verification_codes : v.phone = w.phone => v = w

(* C10: for a configured action kind and no storage error, allowed is true
   exactly when fewer than max rows of the same identifier and kind are
   younger than the window; rows of other identifiers or kinds and a row
   exactly window-old do not count. *)
YoungerThanWindow(identifier, action) ==
  {r \in rate_limits :
     /\ r.identifier = identifier /\ r.action_type = action
     /\ now - r.created_at < RATE_LIMITS[action].windowMinutes}

C10_AllowedIffBelowMax ==
  (probe.action \in DOMAIN RATE_LIMITS /\ ~probe.rpcError) =>
    (probe.result <=>
       Cardinality(YoungerThanWindow(probe.identifier, probe.action))
         < RATE_LIMITS[probe.action].maxAttempts)

(* C10's case: allowed although max rows of the identifier and kind exist,
   because one of them is exactly window-old; other rows are present. *)
C10_Witness ==
  /\ probe.action = "verify_attempt" /\ ~probe.rpcError /\ probe.result
  /\ \E r \in rate_limits :
       /\ r.identifier = probe.identifier /\ r.action_type = probe.action
       /\ r.created_at = now - RATE_LIMITS[probe.action].windowMinutes
  /\ Cardinality({r \in rate_limits :
                    r.identifier = probe.identifier /\ r.action_type = probe.action})
       >= RATE_LIMITS[probe.action].maxAttempts
  /\ \E r \in rate_limits : r.identifier # probe.identifier
  /\ \E r \in rate_limits : r.action_type # probe.action

(* --- booking dates around today and today + 60; one call at a time --- *)
DateOffsets == {-1, 0, MAX_DAYS_AHEAD, MAX_DAYS_AHEAD + 1}

DateRequest(kind, date) ==
  [kind |-> kind, phone |-> <<"local", "s1">>, code |-> IF kind = "create" THEN "c1" ELSE "",
   name |-> "Dana", date |-> date, time |-> 9,
   cred |-> IF kind = "create" THEN "none" ELSE "admin", body |-> ""]

InitDate ==
  /\ now = MINUTES_PER_DAY
  /\ verification_codes = {StoredCode(101, "s1", "c1", now + CODE_TTL_MINUTES)}
  /\ bookings = {}
  /\ rate_limits = {}
  /\ closed_slots = {}
  /\ InitProcs

Quiet == \A q \in Procs : pc[q] \in {"idle", "done"}

NextDate ==
  \/ \E p \in Procs, off \in DateOffsets :
       Quiet /\ CreateReceive(p, DateRequest("create", today + off))
  \/ \E p \in Procs : CreateConsume(p, FALSE)
  \/ \E p \in Procs : CreateCheckTaken(p, FALSE)
  \/ \E p \in Procs : CreateCheckClosed(p, FALSE)
  \/ \E p \in Procs, smsOk \in BOOLEAN : CreateInsert(p, FALSE, smsOk)
  \/ \E p \in Procs, off \in DateOffsets :
       Quiet /\ AdminReceive(p, DateRequest("admin", today + off))
  \/ \E p \in Procs : AdminCheckTaken(p, FALSE)
  \/ \E p \in Procs : AdminCheckClosed(p, FALSE)
  \/ \E p \in Procs, smsOk \in BOOLEAN : AdminInsert(p, FALSE, smsOk)
  \/ Tick(IF now % MINUTES_PER_DAY = 0 THEN MINUTES_PER_DAY - 1 ELSE 1, 2 * MINUTES_PER_DAY)

SpecDate == InitDate /\ [][NextDate]_vars

(* ------- both admin handlers under every kind of credential ----------- *)
Credentials == {"none", "invalid", "user", "admin"}

AuthRequests ==
  {[kind |-> k, phone |-> <<"local", "s1">>, code |-> "", name |-> "Dana",
    date |-> 0, time |-> 9, cred |-> c, body |-> ""] :
     k \in {"admin", "legacy_admin"}, c \in Credentials}

InitAuth ==
  /\ now = 0
  /\ verification_codes = {StoredCode(101, "s1", "c1", CODE_TTL_MINUTES)}
  /\ bookings = {}
  /\ rate_limits = {}
  /\ closed_slots = {}
  /\ InitProcs

NextAuth ==
  \/ \E p \in Procs, r \in AuthRequests : AdminReceive(p, r)
  \/ \E p \in Procs : AdminCheckTaken(p, FALSE)
  \/ \E p \in Procs : AdminCheckClosed(p, FALSE)
  \/ \E p \in Procs, smsOk \in BOOLEAN : AdminInsert(p, FALSE, smsOk)
  \/ \E p \in Procs, r \in AuthRequests : LegacyAdminReceive(p, r)
  \/ \E p \in Procs, smsOk \in BOOLEAN : LegacyAdminInsert(p, FALSE, smsOk)

SpecAuth == InitAuth /\ [][NextAuth]_vars

(* ---- SMS cancellation commands over bookings 1, 3 and 5 hours ahead -- *)
CommandHour == 6

BookedRow(id, sub, hour) ==
  [id |-> id, customer_name |-> "Dana", customer_phone |-> <<"local", sub>>,
   booking_date |-> 0, booking_time |-> hour, status |-> "confirmed"]

LeadHours == {1, THREE_HOURS_MIN \div MINUTES_PER_HOUR, 5}

CancelRequests ==
  {[kind |-> "cancel", phone |-> <<"e164", sub>>, code |-> "", name |-> "",
    date |-> 0, time |-> 0, cred |-> "none", body |-> b] :
     sub \in Subscribers, b \in {"0", "hello"}}

InitCancel ==
  /\ now = CommandHour * MINUTES_PER_HOUR
  /\ verification_codes = {}
  /\ \E leads \in SUBSET LeadHours :
       bookings = {BookedRow(200 + h, "s1", CommandHour + h) : h \in leads}
                  \cup {BookedRow(300, "s2", CommandHour + 4)}
  /\ rate_limits = {}
  /\ closed_slots = {}
  /\ InitProcs

NextCancel ==
  \/ \E p \in Procs, r \in CancelRequests : CancelReceive(p, r)
  \/ \E p \in Procs, e \in BOOLEAN : CancelUpdate(p, e)
  \/ Tick(MINUTES_PER_HOUR, (CommandHour + 2) * MINUTES_PER_HOUR)

SpecCancel == InitCancel /\ [][NextCancel]_vars

(* ======================= the claims, C11 to C20 ======================= *)
(* C11: when a verify call reaches a rate-limit gate, it is rejected (and
   appends no rate-limit record) exactly when max records of the phone and
   kind lie inside the trailing window at that moment; records that have
   left the window no longer block, so the call is allowed again although
   max or more records of the phone and kind are stored. *)
GateStep(p, label, action, rejected) ==
  (pc[p] = label /\ pc'[p] # label) =>
    IF Cardinality(YoungerThanWindow(normalizePhone(req[p].phone), action))
         >= RATE_LIMITS[action].maxAttempts
      THEN /\ pc'[p] = "done" /\ outcome'[p] = rejected
           /\ rate_limits' = rate_limits /\ wrote'[p] = {}
      ELSE pc'[p] # "done"

C11_WindowBlocksThenReopens ==
  [][\A p \in Procs :
       /\ GateStep(p, "v_attempt", "verify_attempt", Resp(429, "he_rate_limited_15"))
       /\ GateStep(p, "v_fail", "verify_fail", Resp(429, "he_locked_15"))]_vars

(* C11's case: a call locked out inside the window, and a later call that
   arrived when max verify_fail records were stored, the oldest already
   outside the window, and passed both gates. *)
C11_Witness ==
  \E q, r \in Procs :
    /\ q < r
    /\ outcome[q] = Resp(429, "he_locked_15")
    /\ pre[q].at < RATE_LIMITS.verify_fail.windowMinutes
    /\ pre[r].at >= RATE_LIMITS.verify_fail.windowMinutes
    /\ consumeAt[r] >= 0
    /\ Cardinality({x \in rate_limits :
                      /\ x.identifier = normalizePhone(req[r].phone)
                      /\ x.action_type = "verify_fail"
                      /\ x.created_at < pre[r].at})
         >= RATE_LIMITS.verify_fail.maxAttempts
(* C12 as stated: every issuance is recorded as an sms_send rate-limit
   record, so the table holds at least as many sms_send records as codes
   have been issued. *)
C12_IssuanceRecorded ==
  Cardinality({r \in rate_limits : r.action_type = "sms_send"}) >= Len(issued)

(* C13 as stated: a verify or createBooking call that arrives while the
   phone's verify_attempt or verify_fail limit is reached performs no
   consume attempt. *)
C13_NoConsumeWhileLimited ==
  \A p \in Procs :
    ( /\ req[p].kind \in {"verify", "create"}
      /\ ~NormalizeThrows(req[p].phone)
      /\ ~pre[p].gatesOpen )
    => consumeAt[p] < 0

(* C14: a createBooking or adminCreateBooking call that passes field
   validation is rejected with InvalidDate exactly when its date d is not
   in today .. today + 60, today being the calendar day of the call; a
   rejected call consumes no code and inserts no booking, and every stored
   booking was in that range on the day it was requested. *)
ArrivalDay(p) == pre[p].at \div MINUTES_PER_DAY

InvalidDate == Resp(200, "he_bad_date")

ReachedSlotSteps(p) ==
  /\ Racer(p) /\ Done(p)
  /\ req[p].name # "" /\ ~NormalizeThrows(req[p].phone)
  /\ IF req[p].kind = "create"
       THEN consumedBy[p] # 0
       ELSE req[p].cred = "admin"
  /\ req[p].kind = "legacy_admin" \/ isValidBookingDate(req[p].date)

C15_ConflictIsSlotTaken ==
  \A p \in Procs :
    (ReachedSlotSteps(p) /\ ~Ok(p)) => outcome[p] = Resp(200, "he_slot_taken")

(* The same for create-booking and the admin handler of
   create-booking/index.ts only. *)
C15_CurrentHandlersSlotTaken ==
  \A p \in Procs :
    (ReachedSlotSteps(p) /\ ~Ok(p) /\ req[p].kind # "legacy_admin")
      => outcome[p] = Resp(200, "he_slot_taken")

(* C16: a call whose booking insert succeeded and whose confirmation SMS
   dispatch failed still returned ok, and the row it inserted is stored
   with the values it was inserted with (its status changed only if an SMS
   cancellation later chose that booking). *)
StoredPhone(p) ==
  IF req[p].kind = "legacy_admin" THEN req[p].phone ELSE normalizePhone(req[p].phone)

C16_DispatchFailureSwallowed ==
  \A p \in Procs :
    notify[p] = "failed" =>
      /\ Ok(p)
      /\ \E b \in bookings :
           /\ [b EXCEPT !.status = "confirmed"]
                = NewBooking(p, req[p].name, StoredPhone(p), req[p].date, req[p].time)
           /\ b.status = "confirmed" \/ \E q \in Procs : target[q] = b.id

(* C16's case: createBooking inserted, the dispatch failed, the call
   returned ok and the booking is confirmed. *)
C16_Witness ==
  \E p \in Procs :
    /\ req[p].kind = "create" /\ notify[p] = "failed" /\ Ok(p)
    /\ \E b \in bookings : b.id = p /\ b.status = "confirmed"

(* C17: on both admin handlers a call without a resolvable credential
   returns Unauthorized (401), a call of a resolved non-admin principal
   returns Forbidden (403), neither writes to any table, every stored
   booking was inserted by a call holding the admin role, and the
   verification and rate-limit tables are never changed by these handlers. *)
C17_AdminOnly ==
  /\ \A p \in Started :
       /\ req[p].cred \in {"none", "invalid"} =>
            Done(p) /\ outcome[p] = Resp(401, "Unauthorized") /\ wrote[p] = {}
       /\ req[p].cred = "user" =>
            Done(p) /\ outcome[p] = Resp(403, "Forbidden - Admin only") /\ wrote[p] = {}
  /\ \A b \in bookings : req[b.id].cred = "admin"
  /\ verification_codes = {StoredCode(101, "s1", "c1", CODE_TTL_MINUTES)}
  /\ rate_limits = {}

(* C17's case: Unauthorized on one handler, Forbidden on the other, and an
   admin's booking stored. *)
C17_Witness ==
  \E p, q, r \in Procs :
    /\ req[p].kind = "admin" /\ outcome[p] = Resp(401, "Unauthorized")
    /\ req[q].kind = "legacy_admin" /\ outcome[q] = Resp(403, "Forbidden - Admin only")
    /\ req[r].cred = "admin" /\ Ok(r) /\ \E b \in bookings : b.id = r

(* C18: the scan of a "0" command chooses, among the phone's non-cancelled
   bookings that start at least 3 hours (180 minutes, inclusive) after the
   command time, the one that is first in (date, time) order, and the
   update of that command changes no booking other than the chosen one. *)
Eligible(phone) ==
  {b \in bookings :
     /\ b.customer_phone = phone
     /\ b.status # "cancelled"
     /\ BookingMinute(b) >= now + 180}

Before(a, b) ==
  \/ a.booking_date < b.booking_date
  \/ a.booking_date = b.booking_date /\ a.booking_time < b.booking_time

ScanStep(p) ==
  (pc[p] = "idle" /\ pc'[p] # "idle" /\ req'[p].kind = "cancel" /\ req'[p].body = "0") =>
    LET E == Eligible(webhookToLocalPhone(req'[p].phone))
    IN /\ bookings' = bookings
       /\ IF E = {}
            THEN target'[p] = 0 /\ outcome'[p] = Resp(200, "he_not_cancellable")
            ELSE \E b \in E :
                   target'[p] = b.id /\ \A o \in E \ {b} : Before(b, o)

UpdateStep(p) ==
  (pc[p] = "x_update" /\ pc'[p] = "done") =>
    /\ \A b \in bookings : b.id # target[p] => b \in bookings'
    /\ outcome'[p] = Resp(200, "he_cancelled") =>
         \E b \in bookings' : b.id = target[p] /\ b.status = "cancelled"

C18_FirstEligibleOnly == [][\A p \in Procs : ScanStep(p) /\ UpdateStep(p)]_vars

(* C18's case: with bookings 1, 3 and 5 hours ahead, the command cancelled
   the one exactly 3 hours ahead and left the other two confirmed. *)
C18_Witness ==
  \E p \in Procs, a, b, c \in bookings :
    /\ outcome[p] = Resp(200, "he_cancelled") /\ target[p] = b.id
    /\ BookingMinute(b) - pre[p].at = 180 /\ b.status = "cancelled"
    /\ BookingMinute(a) < BookingMinute(b) /\ a.status = "confirmed"
    /\ BookingMinute(c) > BookingMinute(b) /\ c.status = "confirmed"
    /\ a.customer_phone = b.customer_phone /\ c.customer_phone = b.customer_phone

(* C19: a booking becomes cancelled only through a command of its phone
   whose scan ran at least 3 hours before the booking starts, and a command
   that finds no such booking returns notCancellable and changes nothing. *)
C19_LeadTimeRespected ==
  [][/\ \A b \in bookings' :
          (b.status = "cancelled" /\ b \notin bookings) =>
            \E p \in Procs :
              /\ pc[p] = "x_update" /\ target[p] = b.id
              /\ webhookToLocalPhone(req[p].phone) = b.customer_phone
              /\ BookingMinute(b) - pre[p].at >= 180
     /\ \A p \in Procs :
          (pc[p] = "idle" /\ outcome'[p] = Resp(200, "he_not_cancellable")) =>
            /\ bookings' = bookings /\ wrote'[p] = {}
            /\ Eligible(webhookToLocalPhone(req'[p].phone)) = {}]_vars

(* C19's case: bookings 1 and 5 hours ahead; the first command cancelled
   the later one, the earlier one is still confirmed, and a second command
   of the phone returned notCancellable. *)
C19_Witness ==
  \E p, q \in Procs, a, b \in bookings :
    /\ p < q /\ req[p].phone = req[q].phone
    /\ outcome[p] = Resp(200, "he_cancelled") /\ target[p] = b.id
    /\ b.status = "cancelled" /\ BookingMinute(b) - pre[p].at = 5 * MINUTES_PER_HOUR
    /\ a.customer_phone = b.customer_phone /\ a.status = "confirmed"
    /\ BookingMinute(a) - pre[p].at = MINUTES_PER_HOUR
    /\ Cardinality({x \in bookings : x.customer_phone = b.customer_phone}) = 2
    /\ outcome[q] = Resp(200, "he_not_cancellable") /\ wrote[q] = {}

(* C20 as stated: every command that reported a cancelled booking changed
   exactly one booking from confirmed to cancelled, so there are as many
   cancelled bookings as commands that reported a cancellation. *)
C20_OneTransitionPerReport ==
  Cardinality({p \in Procs : outcome[p] = Resp(200, "he_cancelled")})
    = Cardinality({b \in bookings : b.status = "cancelled"})

(* ===================== the claims, C21 to C30 ========================= *)
(* ---- verify-code while every rate-limit RPC returns an error --------- *)
InitFailOpen ==
  /\ now = 0
  /\ verification_codes = {StoredCode(101, "s1", "c1", CODE_TTL_MINUTES)}
  /\ bookings = {}
  /\ rate_limits = RateRows(<<"e164", "s1">>, "verify_fail", 0,
                            RATE_LIMITS.verify_fail.maxAttempts)
                   \cup RateRows(<<"e164", "s1">>, "verify_attempt", 0,
                                 RATE_LIMITS.verify_attempt.maxAttempts)
  /\ closed_slots = {}
  /\ InitProcs

NextFailOpen ==
  \/ \E p \in 1 .. FlowProcs, r \in RaceRequests : VerifyReceive(p, r)
  \/ \E p \in 1 .. FlowProcs : VerifyCheckAttempt(p, TRUE)
  \/ \E p \in 1 .. FlowProcs : VerifyCheckFail(p, TRUE)
  \/ \E p \in 1 .. FlowProcs, e \in BOOLEAN : VerifyRecordAttempt(p, e)
  \/ \E p \in 1 .. FlowProcs : VerifyConsume(p, FALSE)
  \/ \E p \in 1 .. FlowProcs, e \in BOOLEAN : VerifyRecordFail(p, e)
  \/ \E s \in Subscribers, a \in ActionTypes \cup {"unknown"}, e \in BOOLEAN :
       RateCheck(<<"e164", s>>, a, e)

SpecFailOpen == InitFailOpen /\ [][NextFailOpen]_vars

LimitReached(identifier, actionType) ==
  ~check_rate_limit(identifier, actionType, RATE_LIMITS[actionType].maxAttempts,
                    RATE_LIMITS[actionType].windowMinutes)

(* C21: the limiter fails open.  A direct call answers allowed for an action
   kind without a configured limit and for a count query that returned a
   storage error; and a verify call whose two gate queries return an error
   is never turned away with RateLimited or LockedOut: once it has returned
   it has run its consume, although the phone has 10 verify_attempt and 5
   verify_fail records inside the window. *)
C21_FailsOpen ==
  /\ (probe.action = "unknown" \/ probe.rpcError) => probe.result
  /\ \A p \in Procs :
       /\ outcome[p] \notin RateLimitedOrLockedOut
       /\ Done(p) => consumeAt[p] # -1

(* C21's case: the phone is over both limits, a direct query that errored
   answered allowed, and a verify call with the stored code succeeded. *)
C21_Witness ==
  /\ LimitReached(<<"e164", "s1">>, "verify_attempt")
  /\ LimitReached(<<"e164", "s1">>, "verify_fail")
  /\ probe.rpcError /\ probe.action = "verify_fail" /\ probe.identifier = <<"e164", "s1">>
  /\ probe.result
  /\ \E p \in Procs : Ok(p) /\ consumedBy[p] = 101

(* C22: a failed recordRateLimit never propagates.  Every verify call that
   was not turned away at a gate has run its consume once it has returned,
   and its outcome is the one the consume decides: success when its UPDATE
   returned the row, InvalidOrExpiredCode otherwise, whether or not its
   verify_attempt and verify_fail records could be written. *)
C22_RecordFailureSwallowed ==
  \A p \in Procs :
    (Done(p) /\ outcome[p] \notin RateLimitedOrLockedOut) =>
      /\ consumeAt[p] # -1
      /\ outcome[p] = IF consumedBy[p] # 0 THEN Resp(200, "none") ELSE InvalidOrExpiredCode

(* C22's case: one call succeeded and another returned InvalidOrExpiredCode,
   and neither could write any rate-limit record. *)
C22_Witness ==
  \E p, q \in Procs :
    /\ Ok(p) /\ consumedBy[p] # 0 /\ "rate_limits" \notin wrote[p]
    /\ Done(q) /\ outcome[q] = InvalidOrExpiredCode /\ consumeAt[q] # -1
    /\ wrote[q] = {}

(* -- verify-code around the end of a lockout, the stored code still valid -- *)
LockoutStart == RATE_LIMITS.verify_fail.windowMinutes - 2

LockoutEnd == RATE_LIMITS.verify_fail.windowMinutes + 1

InitLockout ==
  /\ now = LockoutStart
  /\ verification_codes = {StoredCode(101, "s1", "c1", LockoutStart + CODE_TTL_MINUTES)}
  /\ bookings = {}
  /\ \E k \in {MaxPriorFails, RATE_LIMITS.verify_fail.maxAttempts},
        a \in {0, RATE_LIMITS.verify_attempt.maxAttempts - 1,
               RATE_LIMITS.verify_attempt.maxAttempts} :
       rate_limits = RateRows(<<"e164", "s1">>, "verify_fail", 0, k)
                     \cup RateRows(<<"e164", "s1">>, "verify_attempt", 0, IF a > k THEN a ELSE k)
  /\ closed_slots = {}
  /\ InitProcs

NextLockout ==
  \/ \E p \in 1 .. FlowProcs, r \in RaceRequests : VerifyReceive(p, r)
  \/ \E p \in 1 .. FlowProcs : VerifyCheckAttempt(p, FALSE)
  \/ \E p \in 1 .. FlowProcs : VerifyCheckFail(p, FALSE)
  \/ \E p \in 1 .. FlowProcs : VerifyRecordAttempt(p, FALSE)
  \/ \E p \in 1 .. FlowProcs : VerifyConsume(p, FALSE)
  \/ \E p \in 1 .. FlowProcs : VerifyRecordFail(p, FALSE)
  \/ Tick(1, LockoutEnd)

SpecLockout == InitLockout /\ [][NextLockout]_vars

RecentRecords(identifier, actionType, minutes) ==
  {r \in rate_limits :
     r.identifier = identifier /\ r.action_type = actionType /\ r.created_at > now - minutes}

FiveRecentFails(p) ==
  Cardinality(RecentRecords(normalizePhone(req[p].phone), "verify_fail", 15)) >= 5

TenRecentAttempts(p) ==
  Cardinality(RecentRecords(normalizePhone(req[p].phone), "verify_attempt", 15)) >= 10

AtGate(p) == pc[p] \in {"v_attempt", "v_fail"} /\ pc'[p] # pc[p]

TurnedAway(p, out) ==
  /\ pc'[p] = "done" /\ outcome'[p] = out
  /\ verification_codes' = verification_codes /\ rate_limits' = rate_limits
  /\ wrote'[p] = {} /\ consumedBy'[p] = 0 /\ consumeAt'[p] = -1

(* C23 as stated: a verify call that runs a rate-limit gate while the phone
   has 5 verify_fail records younger than 15 minutes returns LockedOut,
   consumes nothing and appends no record (the first gate may only hand it
   on to the lockout gate). *)
C23_LockedOutAtFive ==
  [][\A p \in Procs :
       (AtGate(p) /\ FiveRecentFails(p)) =>
         \/ pc[p] = "v_attempt" /\ pc'[p] = "v_fail"
         \/ TurnedAway(p, Resp(429, "he_locked_15"))]_vars

(* C23 amended: such a call is turned away with LockedOut, or with
   RateLimited when the phone also has 10 verify_attempt records younger
   than 15 minutes (that gate runs first); either way nothing is consumed
   and no record is appended.  A call that runs the lockout gate when fewer
   than 5 verify_fail records are younger than 15 minutes passes it. *)
C23_LockedOutOrRateLimited ==
  [][\A p \in Procs :
       /\ (AtGate(p) /\ FiveRecentFails(p)) =>
            \/ pc[p] = "v_attempt" /\ ~TenRecentAttempts(p) /\ pc'[p] = "v_fail"
            \/ pc[p] = "v_attempt" /\ TenRecentAttempts(p)
                 /\ TurnedAway(p, Resp(429, "he_rate_limited_15"))
            \/ pc[p] = "v_fail" /\ TurnedAway(p, Resp(429, "he_locked_15"))
       /\ (pc[p] = "v_fail" /\ pc'[p] # pc[p] /\ ~FiveRecentFails(p)) =>
            pc'[p] = "v_record" /\ outcome'[p] = NoOutcome]_vars

(* C23's case: a call with the stored, unexpired code was locked out, and a
   later call with the same code succeeded although the 5 verify_fail
   records are still stored (they are older than 15 minutes by then). *)
C23_Witness ==
  \E p, q \in Procs :
    /\ req[p].code = "c1" /\ outcome[p] = Resp(429, "he_locked_15")
    /\ pre[p].at < LockoutStart + CODE_TTL_MINUTES
    /\ wrote[p] = {} /\ consumeAt[p] = -1
    /\ req[q].code = "c1" /\ Ok(q) /\ consumedBy[q] = 101
    /\ pre[q].at > pre[p].at
    /\ Cardinality({r \in rate_limits : r.action_type = "verify_fail"}) >= 5

(* -- one request at a time over drawn bookings and closed slots; every --- *)
(* -- storage operation of the request may return an error --------------- *)
SlotDate == 0

SlotTime == 9

Faults == {"none", "phone", "name", "date", "name and date"}

FaultyRequest(kind, code, cred, fault) ==
  [kind |-> kind, phone |-> <<IF fault = "phone" THEN "bad" ELSE "local", "s1">>,
   code |-> code, name |-> IF fault \in {"name", "name and date"} THEN "" ELSE "Dana",
   date |-> IF fault \in {"date", "name and date"} THEN MAX_DAYS_AHEAD + 1 ELSE SlotDate,
   time |-> SlotTime, cred |-> cred, body |-> ""]

CreateRequests ==
  {FaultyRequest("create", "c1", "none", f) : f \in Faults}
    \cup {FaultyRequest("create", c, "none", "none") : c \in {"c2", "bad"}}

AdminRequests ==
  {FaultyRequest(k, "", "admin", f) : k \in {"admin", "legacy_admin"}, f \in Faults}

ClosedAt(times) == {[closed_date |-> SlotDate, closed_time |-> t] : t \in times}

ClosedTables ==
  {ClosedAt({}), ClosedAt({{SlotTime + 1}}), ClosedAt({{SlotTime}}),
   ClosedAt({{}, {SlotTime + 1}}), ClosedAt({{}, {SlotTime}})}

InitCreate ==
  /\ now = 0
  /\ verification_codes = {StoredCode(101, "s1", "c1", CODE_TTL_MINUTES)}
  /\ bookings \in {{}, {BookedRow(200, "s2", SlotTime)}}
  /\ rate_limits = {}
  /\ closed_slots \in ClosedTables
  /\ InitProcs

NextCreate ==
  \/ \E p \in 1 .. FlowProcs, r \in CreateRequests : Quiet /\ CreateReceive(p, r)
  \/ \E p \in 1 .. FlowProcs, e \in BOOLEAN : CreateConsume(p, e)
  \/ \E p \in 1 .. FlowProcs, e \in BOOLEAN : CreateCheckTaken(p, e)
  \/ \E p \in 1 .. FlowProcs, e \in BOOLEAN : CreateCheckClosed(p, e)
  \/ \E p \in 1 .. FlowProcs, e \in BOOLEAN, smsOk \in BOOLEAN : CreateInsert(p, e, smsOk)
  \/ \E p \in 1 .. FlowProcs, r \in AdminRequests : Quiet /\ AdminReceive(p, r)
  \/ \E p \in 1 .. FlowProcs, e \in BOOLEAN : AdminCheckTaken(p, e)
  \/ \E p \in 1 .. FlowProcs, e \in BOOLEAN : AdminCheckClosed(p, e)
  \/ \E p \in 1 .. FlowProcs, e \in BOOLEAN, smsOk \in BOOLEAN : AdminInsert(p, e, smsOk)
  \/ \E p \in 1 .. FlowProcs, r \in AdminRequests : Quiet /\ LegacyAdminReceive(p, r)
  \/ \E p \in 1 .. FlowProcs, e \in BOOLEAN, smsOk \in BOOLEAN :
       LegacyAdminInsert(p, e, smsOk)
  \/ \E p \in 1 .. FlowProcs, r \in RaceRequests : Quiet /\ VerifyReceive(p, r)
  \/ \E p \in 1 .. FlowProcs : VerifyCheckAttempt(p, FALSE)
  \/ \E p \in 1 .. FlowProcs : VerifyCheckFail(p, FALSE)
  \/ \E p \in 1 .. FlowProcs : VerifyRecordAttempt(p, FALSE)
  \/ \E p \in 1 .. FlowProcs, e \in BOOLEAN : VerifyConsume(p, e)
  \/ \E p \in 1 .. FlowProcs : VerifyRecordFail(p, FALSE)

SpecCreate == InitCreate /\ [][NextCreate]_vars

FieldsValid(r) == r.name # "" /\ CodeFormatOk(r.code) /\ ~NormalizeThrows(r.phone)

(* C24: createBooking keeps the order Received, FieldsValidated,
   DateValidated, CodeConsumed, SlotChecked, Created or Rejected.  A call
   moves one stage at a time, in this order, or returns; it attempts the
   consume only with valid fields and a date inside the window, runs the
   taken pre-check only after its consume returned the code row, the closed
   pre-check only after the taken pre-check, and inserts only from the stage
   after the closed pre-check; an invalid field is reported before an
   invalid date. *)
C24_CreateOrder ==
  [][\A p \in Procs :
       (req'[p].kind = "create" /\ pc'[p] # pc[p]) =>
         /\ \/ pc'[p] = "done"
            \/ <<pc[p], pc'[p]>> \in {<<"idle", "c_consume">>, <<"c_consume", "c_taken">>,
                                      <<"c_taken", "c_closed">>, <<"c_closed", "c_insert">>}
         /\ pc'[p] = "c_consume" => FieldsValid(req'[p]) /\ isValidBookingDate(req'[p].date)
         /\ (pc[p] = "idle" /\ outcome'[p] = Resp(200, "he_bad_date")) => FieldsValid(req'[p])
         /\ consumeAt'[p] # consumeAt[p] => pc[p] = "c_consume"
         /\ pc'[p] = "c_taken" => consumedBy'[p] # 0
         /\ pc[p] \in {"c_taken", "c_closed", "c_insert"} => consumedBy[p] # 0
         /\ wrote'[p] # wrote[p] => pc[p] \in {"c_consume", "c_insert"}
         /\ "bookings" \in wrote'[p] => pc[p] = "c_insert" /\ outcome'[p] = Resp(200, "none")]_vars

(* C24's case: a createBooking call went through every stage and created
   its booking, and another one was rejected at its consume. *)
C24_Witness ==
  \E p, q \in Procs :
    /\ req[p].kind = "create" /\ Ok(p) /\ consumedBy[p] = 101 /\ wrote[p] =
         {"verification_codes", "bookings"}
    /\ \E b \in bookings : b.id = p
    /\ req[q].kind = "create" /\ outcome[q] = InvalidOrExpiredCode /\ consumeAt[q] # -1
    /\ wrote[q] = {}

(* The kind of a response; Created stands for success: true. *)
OutcomeKind(out) ==
  IF out = Resp(200, "none") THEN "Created"
  ELSE IF out \in SlotUnavailable THEN "SlotUnavailable"
  ELSE IF out = Resp(200, "he_bad_date") THEN "InvalidDate"
  ELSE IF out = InvalidOrExpiredCode THEN "InvalidOrExpiredCode"
  ELSE IF out \in RateLimitedOrLockedOut THEN "RateLimited"
  ELSE IF out.error \in {"he_missing_fields", "he_bad_phone", "he_bad_code",
                         "Missing required fields", "Invalid phone number format"}
    THEN "ValidationError"
  ELSE "InternalError"

(* What createBooking answers to a request whose code is valid, on the store
   the request found: the outcomes of its stages other than the consume. *)
CreateWouldReturn(p) ==
  IF req[p].name = "" \/ NormalizeThrows(req[p].phone) THEN "ValidationError"
  ELSE IF ~isValidBookingDate(req[p].date) THEN "InvalidDate"
  ELSE IF ~pre[p].slotFree THEN "SlotUnavailable"
  ELSE IF ClosedSlotFound(req[p].date, req[p].time) THEN "SlotUnavailable"
  ELSE "Created"

BehavesAsCreate(p) ==
  /\ OutcomeKind(outcome[p]) = CreateWouldReturn(p)
  /\ IF Ok(p)
       THEN NewBooking(p, req[p].name, normalizePhone(req[p].phone), req[p].date, req[p].time)
              \in bookings
       ELSE \A b \in bookings : b.id # p

WithValidCode(p) ==
  req[p].kind = "create" /\ req[p].code = "c1" /\ outcome[p] # InvalidOrExpiredCode

(* C25 as stated: when no storage operation fails, every adminCreateBooking
   call of an authorized admin (either handler) and every createBooking call
   with a valid code return what createBooking's stages after the consume
   return for the request and the store it found: the same field and date
   validation, the same taken and closed pre-checks, the same answer to a
   slot conflict, and the same stored booking. *)
C25_AdminBehavesAsCreate ==
  \A p \in Procs :
    (/\ Done(p) /\ failed[p] = {}
     /\ \/ WithValidCode(p)
        \/ req[p].kind \in {"admin", "legacy_admin"} /\ req[p].cred = "admin")
      => BehavesAsCreate(p)

(* The same for createBooking and the admin handler of
   create-booking/index.ts only. *)
C25_CurrentAdminBehavesAsCreate ==
  \A p \in Procs :
    (/\ Done(p) /\ failed[p] = {}
     /\ \/ WithValidCode(p)
        \/ req[p].kind = "admin" /\ req[p].cred = "admin")
      => BehavesAsCreate(p)

AtClosedCheck(p) == pc[p] \in {"c_closed", "a_closed"} /\ pc'[p] # pc[p] /\ failed'[p] = {}

(* C26 as stated: when the closed-slot pre-check of createBooking or
   adminCreateBooking runs without a storage failure and closed_slots holds
   at least one row for the date whose time is the booking time or null, the
   call returns SlotUnavailable and no booking is inserted; also when
   several rows match. *)
C26_ClosedSlotRejected ==
  [][\A p \in Procs :
       (AtClosedCheck(p) /\ ClosedMatches(req[p].date, req[p].time) # {}) =>
         /\ pc'[p] = "done" /\ outcome'[p] \in SlotUnavailable
         /\ bookings' = bookings]_vars

(* The same when exactly one row matches. *)
C26_SingleClosedRowRejected ==
  [][\A p \in Procs :
       (AtClosedCheck(p) /\ Cardinality(ClosedMatches(req[p].date, req[p].time)) = 1) =>
         /\ pc'[p] = "done" /\ outcome'[p] \in SlotUnavailable
         /\ bookings' = bookings]_vars

(* A booking exists in a slot for which closed_slots holds a whole-day row
   and a row for that time. *)
C26_BookedWhileClosed ==
  \E p \in Procs, b \in bookings :
    /\ b.id = p /\ Ok(p) /\ failed[p] = {} /\ req[p].kind \in {"create", "admin"}
    /\ Cardinality(ClosedMatches(b.booking_date, b.booking_time)) = 2

SameBooking(a, b) ==
  /\ a.id = b.id /\ a.customer_name = b.customer_name /\ a.customer_phone = b.customer_phone
  /\ a.booking_date = b.booking_date /\ a.booking_time = b.booking_time

(* C27: a booking's status only moves from confirmed to cancelled.  In every
   step each stored booking stays stored with the same customer, phone, date
   and time; a cancelled one stays cancelled, a confirmed one stays confirmed
   or becomes cancelled; and every booking that appears in the step is
   confirmed. *)
C27_StatusOnlyForward ==
  [][/\ \A b \in bookings :
          \E c \in bookings' :
            /\ SameBooking(b, c)
            /\ b.status = "cancelled" => c.status = "cancelled"
            /\ c.status \in {b.status, "cancelled"}
     /\ \A c \in bookings' :
          (\A b \in bookings : b.id # c.id) => c.status = "confirmed"
     /\ \A c, d \in bookings' : c.id = d.id => c = d]_vars

(* C27's case: a command cancelled a booking, the row still carries the
   customer, phone, date and time it was created with, and a booking created
   afterwards for the same slot is confirmed. *)
C27_Witness ==
  \E p, q, x \in Procs :
    /\ outcome[x] = Resp(200, "he_cancelled") /\ target[x] = p
    /\ [NewBooking(p, req[p].name, req[p].phone, req[p].date, req[p].time)
          EXCEPT !.status = "cancelled"] \in bookings
    /\ q # p /\ Ok(q)
    /\ \E b \in bookings : b.id = q /\ b.status = "confirmed" /\ b.booking_date = req[p].date
                             /\ b.booking_time = req[p].time

InternalError == Resp(500, "he_generic_error")

DeclaredOutcomes(kind) ==
  IF kind = "verify"
    THEN {"Created", "InvalidOrExpiredCode", "RateLimited", "ValidationError",
          "InternalError"}
    ELSE {"Created", "InvalidOrExpiredCode", "ValidationError", "InvalidDate",
          "SlotUnavailable", "InternalError"}

CurrentHandler(p) == req[p].kind \in {"verify", "create", "admin"}

(* C28 as stated: every verify, createBooking and adminCreateBooking call
   that has returned carries one outcome of its declared set, and a call in
   which a storage operation failed (consume update, taken pre-check, closed
   pre-check or booking insert; a slot conflict is not a failure) returned
   InternalError, never success. *)
C28_StorageFailureIsInternalError ==
  \A p \in Procs :
    (Done(p) /\ CurrentHandler(p)) =>
      /\ OutcomeKind(outcome[p]) \in DeclaredOutcomes(req[p].kind)
      /\ failed[p] # {} => outcome[p] = InternalError

(* The same for a failed consume update or booking insert only. *)
C28_WriteFailureIsInternalError ==
  \A p \in Procs :
    (Done(p) /\ CurrentHandler(p)) =>
      /\ OutcomeKind(outcome[p]) \in DeclaredOutcomes(req[p].kind)
      /\ failed[p] \cap {"consume", "insert"} # {} => outcome[p] = InternalError

(* A call whose closed-slot pre-check failed, and nothing else, created a
   booking in a slot that closed_slots lists. *)
C28_CreatedAfterFailedCheck ==
  \E p \in Procs, b \in bookings :
    /\ CurrentHandler(p) /\ Ok(p) /\ failed[p] = {"closed"} /\ b.id = p
    /\ Cardinality(ClosedMatches(b.booking_date, b.booking_time)) = 1

(* -- concurrent verify-code calls for a phone one record below each limit -- *)
InitBurst ==
  /\ now = 1
  /\ verification_codes = {StoredCode(101, "s1", "c1", 1 + CODE_TTL_MINUTES)}
  /\ bookings = {}
  /\ rate_limits = RateRows(<<"e164", "s1">>, "verify_fail", 0,
                            RATE_LIMITS.verify_fail.maxAttempts - 1)
                   \cup RateRows(<<"e164", "s1">>, "verify_attempt", 0,
                                 RATE_LIMITS.verify_attempt.maxAttempts - 1)
  /\ closed_slots = {}
  /\ InitProcs

NextBurst ==
  \/ \E p \in Procs, r \in RaceRequests : VerifyReceive(p, r)
  \/ \E p \in Procs : VerifyCheckAttempt(p, FALSE)
  \/ \E p \in Procs : VerifyCheckFail(p, FALSE)
  \/ \E p \in Procs : VerifyRecordAttempt(p, FALSE)
  \/ \E p \in Procs : VerifyConsume(p, FALSE)
  \/ \E p \in Procs : VerifyRecordFail(p, FALSE)

SpecBurst == InitBurst /\ [][NextBurst]_vars

EarlierRecords(actionType) ==
  {r \in rate_limits : r.action_type = actionType /\ r.created_at < now}

(* C29 as stated: whatever the interleaving of concurrent verify calls for
   one phone, the calls of the trailing 15 minutes that reached the consume
   (the earlier recorded ones and the present ones) are at most 10, and the
   verify_fail records of the trailing 15 minutes are at most 5. *)
C29_LimitsHoldUnderConcurrency ==
  /\ Cardinality(EarlierRecords("verify_attempt"))
       + Cardinality({p \in Procs : consumeAt[p] # -1}) <= 10
  /\ Cardinality(RecentRecords(<<"e164", "s1">>, "verify_fail", 15)) <= 5

(* Two calls with a wrong code ran their gates before either wrote a record:
   both reached the consume and both recorded a failure, the sixth in the
   window. *)
C29_BothPassedTheGates ==
  \E p, q \in Procs :
    /\ p # q /\ outcome[p] = InvalidOrExpiredCode /\ outcome[q] = InvalidOrExpiredCode
    /\ wrote[p] = {"rate_limits"} /\ wrote[q] = {"rate_limits"}
    /\ Cardinality(RecentRecords(<<"e164", "s1">>, "verify_fail", 15)) = 6

(* ---- the limiter with cleanup_old_rate_limits run at any moment ------- *)
PurgeEnd == CLEANUP_AGE_MINUTES + 2

InitPurge ==
  /\ now = CLEANUP_AGE_MINUTES
  /\ \E a \in ActionTypes, full \in 0 .. 2, old \in 0 .. 1, older \in 0 .. 1 :
       LET newer == IF full = 0 THEN 0 ELSE RATE_LIMITS[a].maxAttempts + full - 2
       IN rate_limits =
         RateRows(<<"e164", "s1">>, a, now - RATE_LIMITS[a].windowMinutes + 1, newer)
         \cup RateRows(<<"e164", "s1">>, a, now - RATE_LIMITS[a].windowMinutes, old)
         \cup RateRows(<<"e164", "s1">>, a, now - CLEANUP_AGE_MINUTES - 1, older)
  /\ verification_codes = {}
  /\ bookings = {}
  /\ closed_slots = {}
  /\ InitProcs

NextPurge ==
  \/ \E a \in ActionTypes, e \in BOOLEAN : RateCheck(<<"e164", "s1">>, a, e)
  \/ \E a \in ActionTypes, e \in BOOLEAN : RateRecord(<<"e164", "s1">>, a, e)
  \/ Cleanup
  \/ Tick(1, PurgeEnd)

SpecPurge == InitPurge /\ [][NextPurge]_vars

Allowed(identifier, actionType) == checkRateLimit(identifier, actionType, FALSE)

(* C30: purging never changes a decision.  In every step that runs
   cleanup_old_rate_limits, for every configured action kind and every
   identifier, the answer of allowed after the step equals the answer before
   it; the step removes exactly the records older than one hour. *)
C30_PurgeKeepsDecisions ==
  [][Cleanup =>
       /\ \A s \in Subscribers, a \in ActionTypes :
            Allowed(<<"e164", s>>, a)' = Allowed(<<"e164", s>>, a)
       /\ rate_limits' = {r \in rate_limits : r.created_at >= now - 60}]_vars

(* C30's case: the purge has just deleted records, while a limit of the
   phone is reached and another kind is still allowed. *)
C30_Witness ==
  /\ probe.action = "cleanup" /\ probe.result
  /\ \E a, b \in ActionTypes :
       /\ ~Allowed(<<"e164", "s1">>, a)
       /\ Allowed(<<"e164", "s1">>, b)
       /\ \E r \in rate_limits : r.action_type = b

(* ===================== the claims, C31 to C37 ========================= *)
SamePhone(a, b) == a[1] # "bad" /\ b[1] # "bad" /\ a[2] = b[2]

AtConsume(p) == pc[p] \in {"v_consume", "c_consume"} /\ pc'[p] # pc[p]

(* C31 as stated: the row written by issuance is keyed by the identifier
   verify and createBooking look up.  When a call runs its consume (it has
   passed the rate-limit gates) and verification_codes holds a row of the
   same phone number with the presented code, unverified and unexpired, the
   consume returns that row and marks it verified. *)
C31_IssuedCodeIsConsumed ==
  [][\A p \in Procs :
       AtConsume(p) =>
         LET held == {v \in verification_codes :
                        /\ SamePhone(v.phone, req[p].phone) /\ v.code = req[p].code
                        /\ ~v.verified /\ v.expires_at > now}
         IN held # {} =>
              \E v \in held : /\ consumedBy'[p] = v.id
                               /\ [v EXCEPT !.verified = TRUE] \in verification_codes']_vars

(* A code was issued to a phone and a verify call for the same phone with
   that code, arriving after the issuance with both limits open, was
   answered InvalidOrExpiredCode while the row is still stored unverified. *)
C31_IssuedCodeNotFound ==
  \E p, q \in Procs :
    /\ req[p].kind = "sms" /\ Ok(p)
    /\ req[q].kind = "verify" /\ req[q].phone = req[p].phone /\ req[q].code = req[p].code
    /\ pre[q].gatesOpen /\ outcome[q] = InvalidOrExpiredCode
    /\ \E v \in verification_codes :
         v.id = p /\ ~v.verified /\ v.expires_at > now /\ v.code = req[q].code

CommandArrives(p) ==
  pc[p] = "idle" /\ pc'[p] # "idle" /\ req'[p].kind = "cancel" /\ req'[p].body = "0"

BookedFor(phone) ==
  {b \in bookings :
     /\ SamePhone(b.customer_phone, phone) /\ b.status # "cancelled"
     /\ BookingMinute(b) - now >= 180}

(* C32 as stated: a cancellation command finds the bookings stored for its
   phone.  When the command arrives and a non-cancelled booking of the same
   phone number starts at least 3 hours ahead, the scan selects a booking of
   that phone for cancellation. *)
C32_CommandFindsBookings ==
  [][\A p \in Procs :
       (CommandArrives(p) /\ BookedFor(req'[p].phone) # {}) =>
         /\ pc'[p] = "x_update"
         /\ \E b \in BookedFor(req'[p].phone) : target'[p] = b.id]_vars

(* The same for bookings stored with the phone as the webhook writes it
   (local form), as the part_001 handler stores a phone typed that way. *)
C32_CommandFindsLocalBookings ==
  [][\A p \in Procs :
       LET mine == {b \in BookedFor(req'[p].phone) : b.customer_phone[1] = "local"}
       IN (CommandArrives(p) /\ mine # {}) =>
            /\ pc'[p] = "x_update"
            /\ \E b \in mine : target'[p] = b.id]_vars

(* -- cancellation commands over bookings one of which has a stored time -- *)
(* -- that is no time of day ---------------------------------------------- *)
MalformedHour == 99

ScanRows ==
  {BookedRow(201, "s1", CommandHour + 1),
   [BookedRow(202, "s1", CommandHour) EXCEPT !.booking_date = 1],
   [BookedRow(203, "s1", CommandHour + 1) EXCEPT !.booking_date = 1],
   [BookedRow(204, "s2", MalformedHour) EXCEPT !.booking_date = 1]}

InitScan ==
  /\ now = CommandHour * MINUTES_PER_HOUR
  /\ verification_codes = {}
  /\ \E rows \in SUBSET ScanRows :
       bookings = {BookedRow(200, "s1", MalformedHour)} \cup rows
  /\ rate_limits = {}
  /\ closed_slots = {}
  /\ InitProcs

NextScan ==
  \/ \E p \in Procs, r \in CancelRequests : CancelReceive(p, r)
  \/ \E p \in Procs, e \in BOOLEAN : CancelUpdate(p, e)
  \/ Tick(MINUTES_PER_HOUR, (CommandHour + 2) * MINUTES_PER_HOUR)

SpecScan == InitScan /\ [][NextScan]_vars

WellFormed(b) == b.booking_time >= 0 /\ b.booking_time < 24

EligibleWellFormed(phone) == {b \in Eligible(phone) : WellFormed(b)}

(* C33: a booking whose stored time is no time of day is skipped by the
   cancellation scan and does not end it.  Such a booking is never
   cancelled; and a command that finds, among the non-cancelled bookings of
   its phone, well-formed ones at least 3 hours ahead selects the first of
   them in (date, time) order, also when a malformed booking precedes it. *)
C33_MalformedTimeSkipped ==
  [][/\ \A b \in bookings' : ~WellFormed(b) => b.status = "confirmed"
     /\ \A p \in Procs :
          CommandArrives(p) =>
            LET E == EligibleWellFormed(webhookToLocalPhone(req'[p].phone))
            IN IF E = {}
                 THEN target'[p] = 0 /\ outcome'[p] = Resp(200, "he_not_cancellable")
                 ELSE \E b \in E : target'[p] = b.id /\ \A o \in E \ {b} : Before(b, o)]_vars

(* C33's case: the phone has a confirmed booking with a malformed time on an
   earlier date, and a command cancelled its booking on the later date. *)
C33_Witness ==
  \E p \in Procs, m, b \in bookings :
    /\ outcome[p] = Resp(200, "he_cancelled") /\ target[p] = b.id
    /\ b.status = "cancelled" /\ WellFormed(b)
    /\ m.customer_phone = b.customer_phone /\ ~WellFormed(m) /\ m.status = "confirmed"
    /\ m.booking_date < b.booking_date

OnlyCancelledAt(date, time) ==
  /\ \E b \in bookings : b.booking_date = date /\ b.booking_time = time
  /\ \A b \in bookings :
       (b.booking_date = date /\ b.booking_time = time) => b.status = "cancelled"

(* C34: cancelling a booking frees its slot.  When createBooking or
   adminCreateBooking runs its taken pre-check for a slot whose bookings are
   all cancelled, the pre-check passes; when it runs its insert for such a
   slot, the insert succeeds, the call returns Created, and the cancelled
   rows are still there, still cancelled. *)
C34_CancelFreesSlot ==
  [][\A p \in Procs :
       OnlyCancelledAt(req[p].date, req[p].time) =>
         /\ (pc[p] = "c_taken" /\ pc'[p] # pc[p]) => pc'[p] = "c_closed"
         /\ (pc[p] = "a_taken" /\ pc'[p] # pc[p]) => pc'[p] = "a_closed"
         /\ (pc[p] \in {"c_insert", "a_insert"} /\ pc'[p] # pc[p]) =>
              /\ outcome'[p] = Resp(200, "none")
              /\ bookings' = bookings \cup
                   {NewBooking(p, req[p].name, normalizePhone(req[p].phone), req[p].date,
                               req[p].time)}]_vars

(* C34's case: a command cancelled a booking, and a createBooking or
   adminCreateBooking call then created a confirmed booking for the same
   date and time; the cancelled row is still stored. *)
C34_Witness ==
  \E p, x \in Procs, b, c \in bookings :
    /\ outcome[x] = Resp(200, "he_cancelled") /\ target[x] = b.id /\ b.status = "cancelled"
    /\ req[p].kind \in {"create", "admin"} /\ Ok(p) /\ c.id = p /\ c.status = "confirmed"
    /\ SameSlot(b, c)

Appended(p, actionType) ==
  \E r \in rate_limits' \ rate_limits :
    /\ rate_limits' = rate_limits \cup {r}
    /\ r.identifier = normalizePhone(req[p].phone) /\ r.action_type = actionType
    /\ r.created_at = now

VerifyStep(p) == req[p].kind = "verify" /\ pc[p] # "idle" /\ pc'[p] # pc[p]

(* C35: rate-limit bookkeeping of verify, when the limiter's storage does
   not fail.  The gates append nothing, whether they pass or reject; a call
   that has passed both gates appends exactly one verify_attempt record of
   its phone, before its consume; the consume appends nothing; after a
   consume that found no row the call appends exactly one verify_fail
   record; a successful consume ends the call with no verify_fail appended;
   and no step of verify removes a record. *)
C35_VerifyBookkeeping ==
  [][\A p \in Procs :
       VerifyStep(p) =>
         /\ rate_limits \subseteq rate_limits'
         /\ pc[p] \in {"v_attempt", "v_fail"} => rate_limits' = rate_limits
         /\ outcome'[p] \in RateLimitedOrLockedOut =>
              rate_limits' = rate_limits /\ wrote'[p] = {}
         /\ pc[p] = "v_record" =>
              Appended(p, "verify_attempt") /\ pc'[p] = "v_consume" /\ consumeAt[p] = -1
         /\ pc[p] = "v_consume" =>
              /\ rate_limits' = rate_limits
              /\ pc'[p] = IF consumedBy'[p] # 0 THEN "done" ELSE "v_recfail"
              /\ consumedBy'[p] # 0 => outcome'[p] = Resp(200, "none")
         /\ pc[p] = "v_recfail" =>
              Appended(p, "verify_fail") /\ outcome'[p] = InvalidOrExpiredCode]_vars

(* C35's case: one call consumed the code and wrote one verify_attempt
   record besides; another call of the same phone failed and wrote only to
   the limiter's table, one verify_attempt and one verify_fail record. *)
C35_Witness ==
  \E p, q \in Procs :
    /\ Ok(p) /\ req[p].kind = "verify" /\ wrote[p] = {"rate_limits", "verification_codes"}
    /\ Done(q) /\ req[q].kind = "verify" /\ outcome[q] = InvalidOrExpiredCode
    /\ wrote[q] = {"rate_limits"}
    /\ \E r \in rate_limits : r.action_type = "verify_fail" /\ r.created_at = pre[q].at
                               /\ r.identifier = normalizePhone(req[q].phone)
    /\ Cardinality({r \in rate_limits : r.action_type = "verify_attempt"
                                         /\ r.identifier = normalizePhone(req[p].phone)
                                         /\ r.created_at = pre[p].at}) >= 2

(* With failing record_rate_limit calls: every step of verify appends at
   most one record and removes none. *)
C35_AtMostOneRecordPerStep ==
  [][\A p \in Procs :
       VerifyStep(p) =>
         /\ rate_limits \subseteq rate_limits'
         /\ Cardinality(rate_limits' \ rate_limits) <= 1
         /\ pc[p] \notin {"v_record", "v_recfail"} => rate_limits' = rate_limits]_vars

ReuseEnd == CODE_TTL_MINUTES + TickStep

ReuseRequests ==
  {[kind |-> k, phone |-> <<"local", "s1">>, code |-> c, name |-> "Dana",
    date |-> 0, time |-> t, cred |-> "none", body |-> ""] :
     k \in {"create", "verify"}, c \in {"c1", "c2"}, t \in {9, 10}}

InitReuse ==
  /\ now = 0
  /\ verification_codes = {StoredCode(101, "s1", "c1", CODE_TTL_MINUTES)}
  /\ bookings = {}
  /\ rate_limits = {}
  /\ closed_slots = {}
  /\ InitProcs

NextReuse ==
  \/ \E p \in 1 .. FlowProcs, r \in ReuseRequests : CreateReceive(p, r)
  \/ \E p \in 1 .. FlowProcs : CreateConsume(p, FALSE)
  \/ \E p \in 1 .. FlowProcs : CreateCheckTaken(p, FALSE)
  \/ \E p \in 1 .. FlowProcs : CreateCheckClosed(p, FALSE)
  \/ \E p \in 1 .. FlowProcs, smsOk \in BOOLEAN : CreateInsert(p, FALSE, smsOk)
  \/ \E p \in 1 .. FlowProcs, r \in ReuseRequests : VerifyReceive(p, r)
  \/ \E p \in 1 .. FlowProcs : VerifyCheckAttempt(p, FALSE)
  \/ \E p \in 1 .. FlowProcs : VerifyCheckFail(p, FALSE)
  \/ \E p \in 1 .. FlowProcs : VerifyRecordAttempt(p, FALSE)
  \/ \E p \in 1 .. FlowProcs : VerifyConsume(p, FALSE)
  \/ \E p \in 1 .. FlowProcs : VerifyRecordFail(p, FALSE)
  \/ Tick(TickStep, ReuseEnd)

SpecReuse == InitReuse /\ [][NextReuse]_vars

PublicBookings == {b \in bookings : b.id \in Procs /\ req[b.id].kind = "create"}

ConsumedByCreate ==
  {v \in verification_codes :
     v.verified /\ \E p \in Procs : req[p].kind = "create" /\ consumedBy[p] = v.id}

(* C36: one verification code yields at most one booking on the public
   path.  In every reachable state the bookings created by createBooking
   are at most as many as the verification records consumed by
   createBooking, each of them stems from a consumed record, and no two of
   them stem from the same record. *)
C36_OneBookingPerCode ==
  /\ Cardinality(PublicBookings) <= Cardinality(ConsumedByCreate)
  /\ \A b \in PublicBookings : \E v \in ConsumedByCreate : consumedBy[b.id] = v.id
  /\ \A b, c \in PublicBookings : b.id # c.id => consumedBy[b.id] # consumedBy[c.id]

(* C36's case: a code has produced a booking, and a second createBooking
   call with the same phone and code for another, free slot was turned away
   with InvalidOrExpiredCode and created nothing. *)
C36_Witness ==
  \E p, q \in Procs :
    /\ p # q /\ req[p].kind = "create" /\ req[q].kind = "create"
    /\ Ok(p) /\ \E b \in bookings : b.id = p
    /\ req[q].phone = req[p].phone /\ req[q].code = req[p].code
    /\ <<req[q].date, req[q].time>> # <<req[p].date, req[p].time>>
    /\ ActiveAt(req[q].date, req[q].time) = {}
    /\ Done(q) /\ outcome[q] = InvalidOrExpiredCode /\ \A b \in bookings : b.id # q

HeldRows(p) ==
  {v \in verification_codes :
     /\ ~NormalizeThrows(req[p].phone) /\ v.phone = normalizePhone(req[p].phone)
     /\ v.code = req[p].code /\ ~v.verified /\ v.expires_at > now}

Accepts(p) ==
  /\ AtConsume(p)
  /\ \/ req[p].kind = "verify" /\ outcome'[p] = Resp(200, "none")
     \/ req[p].kind = "create" /\ pc'[p] = "c_taken"

(* C37: verify and createBooking accept a code only if, at the moment of
   the consume, the Verification Store held a row with the same normalized
   phone and the same code that was unverified and unexpired; the accepting
   call consumed such a row.  With the staging flag off nothing is a test
   account and there is no test code, and the configured test phone with
   the configured test code is accepted under the same condition only. *)
C37_AcceptedOnlyWithRow ==
  [][\A p \in Procs :
       /\ ~isTestAccount(req[p].phone) /\ getTestCode = "null"
       /\ Accepts(p) => \E v \in HeldRows(p) : consumedBy'[p] = v.id
       /\ (pc'[p] # pc[p] /\ ~AtConsume(p) /\ req'[p].kind \in {"verify", "create"}) =>
            /\ pc'[p] # "c_taken"
            /\ outcome'[p] = Resp(200, "none") =>
                 req[p].kind = "create" /\ consumedBy[p] # 0 /\ consumedBy'[p] = consumedBy[p]]_vars

(* C37's case: one call presenting the stored code was accepted and
   consumed the row; a call presenting the configured test phone with the
   configured test code, for which no row exists, went through its consume
   and was turned away with InvalidOrExpiredCode. *)
C37_Witness ==
  \E p, q \in Procs :
    /\ req[p].kind \in {"verify", "create"} /\ consumedBy[p] = 101 /\ consumeAt[p] >= 0
    /\ req[q].kind \in {"verify", "create"}
    /\ normalizePhone(req[q].phone) = normalizePhone(TEST_PHONE_ENV)
    /\ req[q].code = TEST_CODE_ENV
    /\ consumeAt[q] >= 0 /\ consumedBy[q] = 0
    /\ Done(q) /\ outcome[q] = InvalidOrExpiredCode

====
